---- MODULE Spec2Model ----
(***************************************************************************)
(* Watermark compositing of LabelVisualizer (src/lib/watermark.ts):        *)
(* addLogoWatermark (fixed-position mode) and addStepAndRepeatWatermark    *)
(* (step-and-repeat mode), each modelled as the pipeline of its awaited    *)
(* stages inside the function's try block, with the catch block as its own *)
(* step.                                                                   *)
(*                                                                         *)
(* Numbers.  Image sizes, offsets and bytes are integers.  opacity is a    *)
(* rational [n, d] with d > 0.  A rotation angle is given by its direction *)
(* [cn, sn, q] with cos = cn/q, sin = sn/q and cn^2 + sn^2 = q^2.          *)
(* Buffers.  A raw RGBA buffer is carried as the bytes of its first        *)
(* pixels (at most MaxPixels of them); the loops over a buffer treat every *)
(* pixel alike.                                                            *)
(***************************************************************************)
EXTENDS Integers, Sequences, FiniteSets, TLC

VARIABLES
    waiting,            \* the other call in flight, parked at an await
    env,                \* process.env as the modules of the route saw it on load
    store,              \* the limiter's window in Redis: requests counted per identifier
    now,                \* requests that have arrived so far; the clock
    request,            \* the request POST is handling
    rpc,                \* position in POST
    decision,           \* what ratelimit.limit() answered
    rateLimitResult,    \* what checkRateLimit returned
    effects,            \* what the handler has done outside itself, in order
    response,           \* what POST returned
    mode,               \* which exported function is running
    options,            \* the options argument; an omitted field is << >>
    image,              \* the decoded target image behind base64Image
    logoFile,           \* the image file at logoPath
    logoPixels,         \* RGBA bytes of the resized logo, before any scaling
    captionFile,        \* disclaimer-text.png
    captionPixels,      \* RGBA bytes of the caption, before any scaling
    pc,                 \* position in the function body
    logo,               \* const/let logo
    logoMetadata,
    textBuffer,
    textMetadata,
    combinedWatermark,
    imageMetadata,
    watermarkMetadata,
    compositeOptions,
    scaled,             \* the assets whose alpha loop has run
    canvasSize,
    composites,
    rotatedMetadata,
    logoWithOpacity,
    croppedPattern,
    orientation,        \* how the logo's pixels are turned, and the fills used
    files,              \* the names in public/generated
    listing,            \* what GET /api/generated answered last
    thrown,             \* the value caught by the catch block
    result              \* what the returned promise settles to

gallery == <<files, listing>>
outer == <<waiting, env, store, now, request, rpc, decision, rateLimitResult, effects,
           response, gallery>>
inputs == <<mode, options, image, logoFile, logoPixels, captionFile, captionPixels>>
fixedLocals == <<textBuffer, textMetadata, combinedWatermark, watermarkMetadata,
                 compositeOptions>>
tiledLocals == <<logoWithOpacity, canvasSize, composites, rotatedMetadata, croppedPattern,
                 orientation>>
sharedLocals == <<logo, logoMetadata, imageMetadata, scaled>>
vars == <<outer, inputs, pc, sharedLocals, fixedLocals, tiledLocals, thrown, result>>

(***************************************************************************)
(* Bounds of the model                                                     *)
(***************************************************************************)
MaxImg == 3         \* small target images vary over MaxImg values on each side
MaxAsset == 2       \* small logo widths and caption sides are 1..MaxAsset
MaxPadding == 1     \* small paddings are 0..MaxPadding
MaxSpacing == 1     \* small spacings are 0..MaxSpacing
MaxPixels == 2      \* pixels of a raw buffer that the model carries
MaxRequests == 2    \* requests that arrive at POST /api/generate

(***************************************************************************)
(* Values                                                                  *)
(***************************************************************************)
Omitted == << >>
Given(v) == <<v>>
NoError == "none"

Abs(x) == IF x < 0 THEN -x ELSE x
Min(a, b) == IF a < b THEN a ELSE b
Rat(n, d) == [n |-> n, d |-> d]

\* Math.floor(n / d) and Math.ceil(n / d) for an integer n and d > 0.
MathFloor(n, d) == n \div d
MathCeil(n, d) == -((-n) \div d)
\* Math.round(n / d) for d > 0: the nearest integer, a tie going up.
MathRound(n, d) == (2 * n + d) \div (2 * d)
\* Math.max
MathMax(a, b) == IF a > b THEN a ELSE b
\* Math.ceil(n / d) for an integer n and d # 0
CeilOfRatio(n, d) == IF d > 0 THEN MathCeil(n, d) ELSE MathCeil(-n, -d)
\* What a division by zero and what 0 * Infinity or parseInt of no digits give.
Infinity == "Infinity"
NaN == "NaN"

\* A store into a Buffer element keeps the low eight bits of the integer.
ByteWidth == 256
ToUint8(v) == v % ByteWidth

(***************************************************************************)
(* The options argument and its destructuring defaults                     *)
(***************************************************************************)
\* Default that takes the default whatever the caller gave.
DefaultIgnoringGiven(field, d) == d

Default(field, d) == IF field = Omitted THEN d ELSE field[1]

FixedLogoWidth == 300
FixedPosition == "southwest"
FixedPadding == 20
FixedOpacity == Rat(1, 1)
TiledLogoWidth == 112
TiledOpacity == Rat(3, 20)
TiledSpacing == 25
\* angle = -30: cos and sin of -30 degrees are irrational, the model carries
\* the rational direction nearest to it among its angles (-29.86 degrees).
TiledAngle == [cn |-> 209, sn |-> -120, q |-> 241]

logoWidth ==
    Default(options.logoWidth, IF mode = "fixed" THEN FixedLogoWidth ELSE TiledLogoWidth)
position == Default(options.position, FixedPosition)
padding == Default(options.padding, FixedPadding)
opacity == Default(options.opacity, IF mode = "fixed" THEN FixedOpacity ELSE TiledOpacity)
spacing == Default(options.spacing, TiledSpacing)
angle == Default(options.angle, TiledAngle)

(***************************************************************************)
(* Alpha scaling: for (let i = 3; i < data.length; i += 4)                 *)
(*                    data[i] = Math.round(data[i] * opacity)              *)
(* Sequences are 1-based, so byte i of the code is element i + 1.          *)
(***************************************************************************)
AlphaByte(a, op) == ToUint8(MathRound(a * op.n, op.d))

RECURSIVE ScaleAlphaFrom(_, _, _)
ScaleAlphaFrom(data, i, op) ==
    IF i + 1 > Len(data)
    THEN data
    ELSE ScaleAlphaFrom([data EXCEPT ![i + 1] = AlphaByte(data[i + 1], op)], i + 4, op)

ScaleAlpha(data, op) == ScaleAlphaFrom(data, 3, op)

\* FixedGate that lets only opacities below one half through.
FixedGateBelowHalf(op) == 2 * op.n < op.d

\* FixedGate that also lets opacity 1.0 through.
FixedGateInclusive(op) == op.n <= op.d

\* if (opacity < 1.0) of addLogoWatermark
FixedGate(op) == op.n < op.d

(***************************************************************************)
(* What the image library does, as far as the functions depend on it       *)
(***************************************************************************)
NoBuffer == [width |-> 0, height |-> 0, data |-> << >>]
NoMetadata == [width |-> 0, height |-> 0]
NoOverlay == [left |-> 0, top |-> 0]
Pending == [kind |-> "pending", width |-> 0, height |-> 0, prefix |-> "", cause |-> ""]

Buffer(size, data) == [width |-> size.width, height |-> size.height, data |-> data]

\* resize({ width }) keeps the aspect ratio.
Resize(file, width) ==
    [width |-> width,
     height |-> MathMax(1, MathRound(file.height * width, file.width))]

\* metadata() of a buffer: its size, or a record that lacks width or height.
MetadataOf(buf) ==
    { [width |-> buf.width, height |-> buf.height],
      [width |-> 0, height |-> buf.height],
      [width |-> buf.width, height |-> 0] }

\* Unavailable that looks at the width alone.
UnavailableWidthOnly(m) == m.width = 0

\* !metadata.width || !metadata.height
Unavailable(m) == m.width = 0 \/ m.height = 0

\* composite() refuses an overlay that is larger than the image under it.
CompositeFits(base, overlay) ==
    overlay.width <= base.width /\ overlay.height <= base.height

\* CompositeSize taking the overlay's size for the result.
CompositeSizeOfOverlay(base, overlay) ==
    [width |-> overlay.width, height |-> overlay.height]

\* sharp(base).composite([...]).toBuffer(): the size of the result.
CompositeSize(base, overlay) == [width |-> base.width, height |-> base.height]

ExtractError == "extract_area: bad extract area"
DecodeError == "Input file contains unsupported image format"
EncodeError == "Processing failed"
CompositeError == "Image to composite must have same dimensions or smaller"

\* The ways composite(overlays).toBuffer() onto base can fail.
CompositeFailures(base, overlays) ==
    {EncodeError} \cup
    (IF \E o \in overlays : ~CompositeFits(base, o) THEN {CompositeError} ELSE {})

(***************************************************************************)
(* Entry: both functions start with nothing computed.                      *)
(***************************************************************************)
NoRegion == [left |-> 0, top |-> 0, width |-> 0, height |-> 0]
\* pixels as loaded: turned by 0 degrees, nothing filled in
AsLoaded == [turn |-> [cn |-> 1, sn |-> 0, q |-> 1], background |-> << >>]
NoWatermark == [width |-> 0, height |-> 0, layers |-> << >>]

NoLocals ==
    /\ logo = NoBuffer
    /\ logoMetadata = NoMetadata
    /\ imageMetadata = NoMetadata
    /\ scaled = {}
    /\ textBuffer = NoBuffer
    /\ textMetadata = NoMetadata
    /\ combinedWatermark = NoWatermark
    /\ watermarkMetadata = NoMetadata
    /\ compositeOptions = NoOverlay
    /\ logoWithOpacity = NoBuffer
    /\ canvasSize = 0
    /\ composites = << >>
    /\ rotatedMetadata = NoMetadata
    /\ croppedPattern = NoRegion
    /\ orientation = AsLoaded

(***************************************************************************)
(* try { ... } catch (error) { throw new Error(prefix + error.message) }   *)
(* A throw inside the try block leaves the block: its locals are gone and  *)
(* the handler holds the error alone.                                      *)
(***************************************************************************)
Throw(cause) ==
    /\ pc' = "catch"
    /\ thrown' = cause
    /\ logo' = NoBuffer
    /\ logoMetadata' = NoMetadata
    /\ imageMetadata' = NoMetadata
    /\ scaled' = {}
    /\ textBuffer' = NoBuffer
    /\ textMetadata' = NoMetadata
    /\ combinedWatermark' = NoWatermark
    /\ watermarkMetadata' = NoMetadata
    /\ compositeOptions' = NoOverlay
    /\ logoWithOpacity' = NoBuffer
    /\ canvasSize' = 0
    /\ composites' = << >>
    /\ rotatedMetadata' = NoMetadata
    /\ croppedPattern' = NoRegion
    /\ orientation' = AsLoaded
    /\ UNCHANGED <<outer, inputs, result>>

Prefix == IF mode = "fixed"
          THEN "Failed to add watermark"
          ELSE "Failed to add step and repeat watermark"

\* Rethrown that drops the message of the error it caught.
RethrownUnknown(cause) ==
    [kind |-> "error", width |-> 0, height |-> 0, prefix |-> Prefix,
     cause |-> "Unknown error"]

\* lines 204-211 and 378-385: the error thrown to the caller
Rethrown(cause) ==
    [kind |-> "error", width |-> 0, height |-> 0, prefix |-> Prefix, cause |-> cause]

Catch ==
    /\ pc = "catch"
    /\ result' = Rethrown(thrown)
    /\ pc' = "failed"
    /\ UNCHANGED <<outer, inputs, sharedLocals, fixedLocals, tiledLocals, thrown>>

\* return watermarked
Returned(size) ==
    [kind |-> "buffer", width |-> size.width, height |-> size.height,
     prefix |-> "", cause |-> ""]

(***************************************************************************)
(* addLogoWatermark                                                        *)
(***************************************************************************)
TextPadding == 10
FallbackTextWidth == 400
FallbackTextHeight == 24

\* lines 37-66: load, resize and (when gated in) alpha-scale the logo
FixedLogo ==
    /\ pc = "logo"
    /\ mode = "fixed"
    /\ \/ Throw(DecodeError)
       \/ /\ logo' = Buffer(Resize(logoFile, logoWidth),
                          IF FixedGate(opacity)
                          THEN ScaleAlpha(logoPixels, opacity)
                          ELSE logoPixels)
          /\ scaled' = IF FixedGate(opacity) THEN scaled \cup {"logo"} ELSE scaled
          /\ pc' = "logoMetadata"
          /\ UNCHANGED <<outer, inputs, logoMetadata, imageMetadata, fixedLocals, tiledLocals,
                         thrown, result>>

\* lines 68-73: the logo's dimensions, and the check on them
FixedLogoMetadata ==
    /\ pc = "logoMetadata"
    /\ mode = "fixed"
    /\ \E m \in MetadataOf(logo) :
         IF Unavailable(m)
         THEN Throw("Could not determine logo dimensions")
         ELSE /\ logoMetadata' = m
              /\ pc' = "caption"
              /\ UNCHANGED <<outer, inputs, logo, imageMetadata, scaled, fixedLocals,
                             tiledLocals, thrown, result>>

\* lines 84-107: load and (when gated in) alpha-scale the disclaimer text
FixedCaption ==
    /\ pc = "caption"
    /\ mode = "fixed"
    /\ \/ Throw(DecodeError)
       \/ /\ textBuffer' = Buffer(captionFile,
                                  IF FixedGate(opacity)
                                  THEN ScaleAlpha(captionPixels, opacity)
                                  ELSE captionPixels)
          /\ scaled' = IF FixedGate(opacity) THEN scaled \cup {"caption"} ELSE scaled
          /\ pc' = "compose"
          /\ UNCHANGED <<outer, inputs, logo, logoMetadata, imageMetadata, textMetadata,
                         combinedWatermark, watermarkMetadata, compositeOptions,
                         tiledLocals, thrown, result>>

\* lines 110-111: textMetadata.width || 400, textMetadata.height || 24
TextWidth(m) == IF m.width = 0 THEN FallbackTextWidth ELSE m.width
TextHeight(m) == IF m.height = 0 THEN FallbackTextHeight ELSE m.height

\* CombinedHeight without the gap between logo and caption.
CombinedHeightNoGap(lm, tm) == lm.height + TextHeight(tm)

\* lines 114-115
CombinedHeight(lm, tm) == lm.height + TextHeight(tm) + TextPadding
CombinedWidth(lm, tm) == MathMax(lm.width, TextWidth(tm))

\* lines 125-136: the two layers of the combined watermark
CombinedLayers(lm) ==
    << [input |-> "logo", top |-> 0, left |-> 0],
       [input |-> "textBuffer", top |-> lm.height + TextPadding, left |-> 0] >>

\* lines 109-138: the caption's dimensions and the combined watermark
FixedCompose ==
    /\ pc = "compose"
    /\ mode = "fixed"
    /\ \E m \in MetadataOf(textBuffer) :
         LET size == [width |-> CombinedWidth(logoMetadata, m),
                      height |-> CombinedHeight(logoMetadata, m)]
         IN  \/ \E cause \in CompositeFailures(size, {logo, textBuffer}) : Throw(cause)
             \/ /\ CompositeFits(size, logo) /\ CompositeFits(size, textBuffer)
                /\ textMetadata' = m
                /\ combinedWatermark' =
                     [width |-> size.width, height |-> size.height,
                      layers |-> CombinedLayers(logoMetadata)]
                /\ pc' = "dimensions"
                /\ UNCHANGED <<outer, inputs, sharedLocals, textBuffer, watermarkMetadata,
                               compositeOptions, tiledLocals, thrown, result>>

\* lines 140-150: the dimensions of the image and of the combined watermark
FixedDimensions ==
    /\ pc = "dimensions"
    /\ mode = "fixed"
    /\ \/ Throw(DecodeError)
       \/ \E im \in MetadataOf(image), wm \in MetadataOf(combinedWatermark) :
            IF Unavailable(im)
            THEN Throw("Could not determine image dimensions")
            ELSE IF Unavailable(wm)
            THEN Throw("Could not determine watermark dimensions")
            ELSE /\ imageMetadata' = im
                 /\ watermarkMetadata' = wm
                 /\ pc' = "place"
                 /\ UNCHANGED <<outer, inputs, logo, logoMetadata, scaled, textBuffer,
                                textMetadata, combinedWatermark, compositeOptions,
                                tiledLocals, thrown, result>>

\* Offset that adds the padding to the right-anchored left offset.
OffsetPaddingOutward(pos, im, wm, pad) ==
    CASE pos = "southeast" ->
           [top |-> im.height - wm.height - pad, left |-> im.width - wm.width + pad]
      [] pos = "southwest" ->
           [top |-> im.height - wm.height - pad, left |-> pad]
      [] pos = "northeast" ->
           [top |-> pad, left |-> im.width - wm.width + pad]
      [] pos = "northwest" ->
           [top |-> pad, left |-> pad]
      [] pos = "center" ->
           [top |-> MathFloor(im.height - wm.height, 2),
            left |-> MathFloor(im.width - wm.width, 2)]
      [] OTHER ->
           [top |-> im.height - wm.height - pad, left |-> pad]

\* Offset with Math.trunc in place of Math.floor for "center".
OffsetTruncating(pos, im, wm, pad) ==
    LET Trunc2(n) == IF n < 0 THEN -((-n) \div 2) ELSE n \div 2
    IN  CASE pos = "southeast" ->
               [top |-> im.height - wm.height - pad, left |-> im.width - wm.width - pad]
          [] pos = "southwest" ->
               [top |-> im.height - wm.height - pad, left |-> pad]
          [] pos = "northeast" ->
               [top |-> pad, left |-> im.width - wm.width - pad]
          [] pos = "northwest" ->
               [top |-> pad, left |-> pad]
          [] pos = "center" ->
               [top |-> Trunc2(im.height - wm.height),
                left |-> Trunc2(im.width - wm.width)]
          [] OTHER ->
               [top |-> im.height - wm.height - pad, left |-> pad]

\* Offset whose default branch anchors at the top instead of the bottom.
OffsetDefaultNorthwest(pos, im, wm, pad) ==
    CASE pos = "southeast" ->
           [top |-> im.height - wm.height - pad, left |-> im.width - wm.width - pad]
      [] pos = "southwest" ->
           [top |-> im.height - wm.height - pad, left |-> pad]
      [] pos = "northeast" ->
           [top |-> pad, left |-> im.width - wm.width - pad]
      [] pos = "center" ->
           [top |-> MathFloor(im.height - wm.height, 2),
            left |-> MathFloor(im.width - wm.width, 2)]
      [] OTHER ->
           [top |-> pad, left |-> pad]

\* Offset with Math.ceil for the centre, and the northeast corner measured
\* from the left edge.
OffsetCentreCeil(pos, im, wm, pad) ==
    CASE pos = "southeast" ->
           [top |-> im.height - wm.height - pad, left |-> im.width - wm.width - pad]
      [] pos = "southwest" ->
           [top |-> im.height - wm.height - pad, left |-> pad]
      [] pos = "northeast" ->
           [top |-> pad, left |-> pad]
      [] pos = "northwest" ->
           [top |-> pad, left |-> pad]
      [] pos = "center" ->
           [top |-> MathCeil(im.height - wm.height, 2),
            left |-> MathCeil(im.width - wm.width, 2)]
      [] OTHER ->
           [top |-> im.height - wm.height - pad, left |-> pad]

\* lines 158-193: switch (position)
Offset(pos, im, wm, pad) ==
    CASE pos = "southeast" ->
           [top |-> im.height - wm.height - pad, left |-> im.width - wm.width - pad]
      [] pos = "southwest" ->
           [top |-> im.height - wm.height - pad, left |-> pad]
      [] pos = "northeast" ->
           [top |-> pad, left |-> im.width - wm.width - pad]
      [] pos = "northwest" ->
           [top |-> pad, left |-> pad]
      [] pos = "center" ->
           [top |-> MathFloor(im.height - wm.height, 2),
            left |-> MathFloor(im.width - wm.width, 2)]
      [] OTHER ->
           [top |-> im.height - wm.height - pad, left |-> pad]

\* lines 152-193: the overlay's offset
FixedPlace ==
    /\ pc = "place"
    /\ mode = "fixed"
    /\ compositeOptions' = Offset(position, imageMetadata, watermarkMetadata, padding)
    /\ pc' = "composite"
    /\ UNCHANGED <<outer, inputs, sharedLocals, textBuffer, textMetadata, combinedWatermark,
                   watermarkMetadata, tiledLocals, thrown, result>>

\* lines 195-203: composite the watermark onto the image and return it
FixedComposite ==
    /\ pc = "composite"
    /\ mode = "fixed"
    /\ \/ \E cause \in CompositeFailures(image, {combinedWatermark}) : Throw(cause)
       \/ /\ CompositeFits(image, combinedWatermark)
          /\ result' = Returned(CompositeSize(image, combinedWatermark))
          /\ pc' = "done"
          /\ UNCHANGED <<outer, inputs, sharedLocals, fixedLocals, tiledLocals, thrown>>

(***************************************************************************)
(* addStepAndRepeatWatermark                                               *)
(***************************************************************************)
\* rotate(angle, { background }): the bounding box of the turned rectangle.
RotatedSize(size, a) ==
    [width |-> MathCeil(size.width * Abs(a.cn) + size.height * Abs(a.sn), a.q),
     height |-> MathCeil(size.width * Abs(a.sn) + size.height * Abs(a.cn), a.q)]

\* Negated that leaves the angle as it is.
NegatedNot(a) == a

\* -angle
Negated(a) == [a EXCEPT !.sn = -a.sn]

\* background: { r: 0, g: 0, b: 0, alpha: 0 }
Transparent == [r |-> 0, g |-> 0, b |-> 0, alpha |-> 0]

\* rotate(a, { background }): the pixels are turned by a further a, the
\* corners the turn exposes take the background.
Rotate(o, a, background) ==
    [turn |-> [cn |-> o.turn.cn * a.cn - o.turn.sn * a.sn,
               sn |-> o.turn.sn * a.cn + o.turn.cn * a.sn,
               q |-> o.turn.q * a.q],
     background |-> Append(o.background, background)]

\* lines 247-251: the dimensions of the image
TiledImageMetadata ==
    /\ pc = "imageMetadata"
    /\ mode = "tiled"
    /\ \/ Throw(DecodeError)
       \/ \E im \in MetadataOf(image) :
            IF Unavailable(im)
            THEN Throw("Could not determine image dimensions")
            ELSE /\ imageMetadata' = im
                 /\ pc' = "logo"
                 /\ UNCHANGED <<outer, inputs, logo, logoMetadata, scaled, fixedLocals,
                                tiledLocals, thrown, result>>

\* lines 253-275: load, resize and alpha-scale the logo
TiledLogo ==
    /\ pc = "logo"
    /\ mode = "tiled"
    /\ \/ Throw(DecodeError)
       \/ /\ logoWithOpacity' =
               Buffer(Resize(logoFile, logoWidth), ScaleAlpha(logoPixels, opacity))
          /\ scaled' = scaled \cup {"logo"}
          /\ pc' = "rotateLogo"
          /\ UNCHANGED <<outer, inputs, logo, logoMetadata, imageMetadata, fixedLocals,
                         canvasSize, composites, rotatedMetadata, croppedPattern,
                         orientation, thrown, result>>

\* lines 277-287: counter-rotate the logo, read its dimensions
TiledRotateLogo ==
    /\ pc = "rotateLogo"
    /\ mode = "tiled"
    /\ \/ Throw(EncodeError)
       \/ LET rotated == Buffer(RotatedSize(logoWithOpacity, Negated(angle)), << >>)
          IN  \E m \in MetadataOf(rotated) :
                IF Unavailable(m)
                THEN Throw("Could not determine logo dimensions")
                ELSE /\ logo' = rotated
                     /\ logoMetadata' = m
                     /\ orientation' = Rotate(orientation, Negated(angle), Transparent)
                     /\ pc' = "grid"
                     /\ UNCHANGED <<outer, inputs, imageMetadata, scaled, fixedLocals,
                                    logoWithOpacity, canvasSize, composites,
                                    rotatedMetadata, croppedPattern, thrown, result>>

\* lines 295-298: Math.ceil(Math.sqrt(w ** 2 + h ** 2) * 1.5), the least c with
\* c >= 1.5 * sqrt(w^2 + h^2), found by counting up
RECURSIVE CeilOfDiagonal(_, _)
CeilOfDiagonal(n, c) == IF 4 * c * c >= 9 * n THEN c ELSE CeilOfDiagonal(n, c + 1)

\* CanvasSize with Math.floor in place of Math.ceil.
CanvasSizeFloor(im) ==
    LET n == im.width * im.width + im.height * im.height
        c == CeilOfDiagonal(n, 0)
    IN  IF 4 * c * c = 9 * n THEN c ELSE c - 1

\* CanvasSize as the image's shorter side.
CanvasSizeShorterSide(im) == Min(im.width, im.height)

\* CanvasSize as the image's longer side.
CanvasSizeLongerSide(im) == MathMax(im.width, im.height)

CanvasSize(im) == CeilOfDiagonal(im.width * im.width + im.height * im.height, 0)

\* Grid without the one tile more than the canvas needs in each axis.
GridWithoutSpare(lm, im, sp) ==
    LET tileWidth == lm.width + sp
        tileHeight == lm.height + sp
        size == CanvasSize(im)
        tilesX == MathCeil(size, tileWidth)
        tilesY == MathCeil(size, tileHeight)
    IN  [tileWidth |-> tileWidth, tileHeight |-> tileHeight, canvasSize |-> size,
         tilesX |-> tilesX, tilesY |-> tilesY,
         offsetX2 |-> size - tilesX * tileWidth,
         offsetY2 |-> size - tilesY * tileHeight]

\* lines 289-309: the grid; offsetX and offsetY are kept doubled (they may be
\* half integers)
Grid(lm, im, sp) ==
    LET tileWidth == lm.width + sp
        tileHeight == lm.height + sp
        size == CanvasSize(im)
        tilesX == IF tileWidth = 0 THEN Infinity ELSE CeilOfRatio(size, tileWidth) + 1
        tilesY == IF tileHeight = 0 THEN Infinity ELSE CeilOfRatio(size, tileHeight) + 1
    IN  [tileWidth |-> tileWidth, tileHeight |-> tileHeight, canvasSize |-> size,
         tilesX |-> tilesX, tilesY |-> tilesY,
         offsetX2 |-> IF tileWidth = 0 THEN NaN ELSE size - tilesX * tileWidth,
         offsetY2 |-> IF tileHeight = 0 THEN NaN ELSE size - tilesY * tileHeight]

\* Tile without the shift of the odd rows.
TileUnshifted(g, x, y) ==
    [top |-> MathRound(g.offsetY2 + 2 * y * g.tileHeight, 2),
     left |-> MathRound(g.offsetX2 + 2 * x * g.tileWidth, 2)]

\* Tile with rows half a tile height apart.
TileRowsHalfPitch(g, x, y) ==
    LET rowOffset2 == IF y % 2 = 0 THEN 0 ELSE g.tileWidth
    IN  [top |-> MathRound(g.offsetY2 + y * g.tileHeight, 2),
         left |-> MathRound(g.offsetX2 + 2 * x * g.tileWidth + rowOffset2, 2)]

\* lines 314-319: one tile; rowOffset is tileWidth / 2 on odd rows
Tile(g, x, y) ==
    LET rowOffset2 == IF y % 2 = 0 THEN 0 ELSE g.tileWidth
    IN  [top |-> MathRound(g.offsetY2 + 2 * y * g.tileHeight, 2),
         left |-> MathRound(g.offsetX2 + 2 * x * g.tileWidth + rowOffset2, 2)]

\* lines 311-321: for (y ...) for (x ...) composites.push(...): the tiles
\* pushed from column x of row y on, and from row y on
RECURSIVE TileLoopX(_, _, _)
TileLoopX(g, y, x) ==
    IF x < g.tilesX THEN <<Tile(g, x, y)>> \o TileLoopX(g, y, x + 1) ELSE << >>

RECURSIVE TileLoopY(_, _)
TileLoopY(g, y) ==
    IF y < g.tilesY THEN TileLoopX(g, y, 0) \o TileLoopY(g, y + 1) ELSE << >>

\* lines 311-321: the loops end.  y < Infinity holds for every y, so the
\* outer loop never ends when tilesY is Infinity, and the inner one never
\* ends when tilesX is Infinity and there is a row to fill.
LoopEnds(g) ==
    /\ g.tileHeight # 0
    /\ g.tilesY > 0 => g.tileWidth # 0

\* lines 289-321: the grid and the list of tiles; in "tileLoop" the function
\* is inside a loop it never leaves
TiledGrid ==
    /\ pc = "grid"
    /\ mode = "tiled"
    /\ LET g == Grid(logoMetadata, imageMetadata, spacing)
       IN  /\ canvasSize' = g.canvasSize
           /\ IF LoopEnds(g)
              THEN /\ composites' = TileLoopY(g, 0)
                   /\ pc' = "pattern"
              ELSE /\ composites' = << >>
                   /\ pc' = "tileLoop"
    /\ UNCHANGED <<outer, inputs, sharedLocals, fixedLocals, logoWithOpacity, rotatedMetadata,
                   croppedPattern, orientation, thrown, result>>

Square(n) == [width |-> n, height |-> n]

\* the images a list of tiles puts on the canvas: input is the same in each
Overlays(tiles, input) == IF tiles = << >> THEN {} ELSE {input}

\* lines 323-334: the tiles composited onto a transparent square canvas
TiledPattern ==
    /\ pc = "pattern"
    /\ mode = "tiled"
    /\ \/ \E cause \in CompositeFailures(Square(canvasSize), Overlays(composites, logo)) :
            Throw(cause)
       \/ /\ \A overlay \in Overlays(composites, logo) :
               CompositeFits(Square(canvasSize), overlay)
          /\ pc' = "rotate"
          /\ UNCHANGED <<outer, inputs, sharedLocals, fixedLocals, tiledLocals, thrown, result>>

\* lines 336-345: rotate the pattern, read its dimensions
TiledRotate ==
    /\ pc = "rotate"
    /\ mode = "tiled"
    /\ \/ Throw(EncodeError)
       \/ \E m \in MetadataOf(RotatedSize(Square(canvasSize), angle)) :
            IF Unavailable(m)
            THEN Throw("Could not determine rotated pattern dimensions")
            ELSE /\ rotatedMetadata' = m
                 /\ orientation' = Rotate(orientation, angle, Transparent)
                 /\ pc' = "crop"
                 /\ UNCHANGED <<outer, inputs, sharedLocals, fixedLocals, logoWithOpacity,
                                canvasSize, composites, croppedPattern, thrown, result>>

\* ExtractRegion with Math.ceil in place of Math.floor.
ExtractRegionCeil(rm, im) ==
    [left |-> MathMax(0, MathCeil(rm.width - im.width, 2)),
     top |-> MathMax(0, MathCeil(rm.height - im.height, 2)),
     width |-> im.width,
     height |-> im.height]

\* lines 347-361: the region handed to extract()
ExtractRegion(rm, im) ==
    [left |-> MathMax(0, MathFloor(rm.width - im.width, 2)),
     top |-> MathMax(0, MathFloor(rm.height - im.height, 2)),
     width |-> im.width,
     height |-> im.height]

\* extract() refuses a region that leaves the image.
ExtractFits(rm, r) ==
    r.left + r.width <= rm.width /\ r.top + r.height <= rm.height

ExtractFailures(rm, r) ==
    {EncodeError} \cup (IF ExtractFits(rm, r) THEN {} ELSE {ExtractError})

\* lines 347-362: crop the centre of the rotated pattern
TiledCrop ==
    /\ pc = "crop"
    /\ mode = "tiled"
    /\ LET r == ExtractRegion(rotatedMetadata, imageMetadata)
       IN  \/ \E cause \in ExtractFailures(rotatedMetadata, r) : Throw(cause)
           \/ /\ ExtractFits(rotatedMetadata, r)
              /\ croppedPattern' = r
              /\ pc' = "composite"
              /\ UNCHANGED <<outer, inputs, sharedLocals, fixedLocals, logoWithOpacity,
                             canvasSize, composites, rotatedMetadata, orientation, thrown, result>>

\* An overlay given without top and left is placed by gravity, "centre"
\* unless the caller names another.
GravityCentre(base, overlay) ==
    [left |-> MathFloor(base.width - overlay.width, 2),
     top |-> MathFloor(base.height - overlay.height, 2)]

\* lines 364-377: composite the pattern over the image and return it
TiledComposite ==
    /\ pc = "composite"
    /\ mode = "tiled"
    /\ \/ \E cause \in CompositeFailures(image, {croppedPattern}) : Throw(cause)
       \/ /\ CompositeFits(image, croppedPattern)
          /\ result' = Returned(CompositeSize(image, croppedPattern))
          /\ pc' = "done"
          /\ UNCHANGED <<outer, inputs, sharedLocals, fixedLocals, tiledLocals, thrown>>

(***************************************************************************)
(* The calls                                                               *)
(***************************************************************************)
Size(w, h) == [width |-> w, height |-> h]
Sizes(n) == [width : 1..n, height : 1..n]
Maybe(S) == {Omitted} \cup {Given(v) : v \in S}

Positions == {"southeast", "southwest", "northeast", "northwest", "center"}
\* a value outside the union type, as an untyped caller can pass
OtherPositions == {"north"}

\* 0, 90, -36.87, 53.13, 43.60 and 180 degrees
Angles ==
    { [cn |-> 1, sn |-> 0, q |-> 1], [cn |-> 0, sn |-> 1, q |-> 1],
      [cn |-> 4, sn |-> -3, q |-> 5], [cn |-> 3, sn |-> 4, q |-> 5],
      [cn |-> 21, sn |-> 20, q |-> 29], [cn |-> -1, sn |-> 0, q |-> 1] }

\* Logo files: square, landscape and portrait; resize sets the width.
LogoShapes == {Size(1, 1), Size(2, 1), Size(1, 2)}

\* The first pixels of a w x h RGBA image whose first alpha byte is a.
RECURSIVE PixelBytes(_, _, _)
PixelBytes(k, n, a) ==
    IF k > n
    THEN << >>
    ELSE <<10 * k, 20 * k, 30 * k, (a + 85 * (k - 1)) % ByteWidth>>
         \o PixelBytes(k + 1, n, a)

SamplePixels(size, a) == PixelBytes(1, Min(size.width * size.height, MaxPixels), a)

FixedOptions(widths, positions, paddings, opacities) ==
    [logoWidth : widths, position : positions, padding : paddings,
     opacity : opacities, spacing : {Omitted}, angle : {Omitted}]

TiledOptions(widths, opacities, spacings, angles) ==
    [logoWidth : widths, position : {Omitted}, padding : {Omitted},
     opacity : opacities, spacing : spacings, angle : angles]

Calls(modes, opts, images, logos, captions, alphas) ==
    [mode : modes, options : opts, image : images, logoFile : logos,
     captionFile : captions, alpha : alphas]

\* Images about as high as the combined watermark of the small assets, so
\* that it fits some of them and not others.
FixedImages == [width : 1..MaxImg, height : {TextPadding + 1 + h : h \in 1..MaxImg}]

\* Small images and assets, every position, padding, spacing and angle.
SmallFixedCalls ==
    Calls({"fixed"},
          FixedOptions({Given(w) : w \in 1..MaxAsset},
                       Maybe(Positions \cup OtherPositions),
                       Maybe(0..MaxPadding),
                       Maybe({Rat(1, 2)})),
          FixedImages, LogoShapes, Sizes(MaxAsset), {200})

\* The two worked examples of fixed-position placement, at every position.
ExampleFixedCalls ==
    Calls({"fixed"},
          FixedOptions({Omitted}, Maybe(Positions \cup OtherPositions),
                       {Given(20)}, {Omitted}),
          {Size(1024, 1024)}, {Size(200, 100)}, {Size(400, 34)}, {200})
    \cup
    Calls({"fixed"},
          FixedOptions({Given(100)}, Maybe(Positions \cup OtherPositions),
                       {Given(10)}, {Omitted}),
          {Size(500, 500)}, {Size(200, 100)}, {Size(200, 20)}, {200})

SmallTiledCalls ==
    Calls({"tiled"},
          TiledOptions({Given(w) : w \in 1..MaxAsset}, {Omitted},
                       Maybe(0..MaxSpacing), Maybe(Angles)),
          Sizes(MaxImg) \cup {Size(1, 4 * MaxImg), Size(4 * MaxImg, 1)},
          LogoShapes, {Size(1, 1)}, {200})

\* Calls that leave every option out.
DefaultCalls ==
    Calls({"fixed"}, FixedOptions({Omitted}, {Omitted}, {Omitted}, {Omitted}),
          {Size(1024, 1024)}, {Size(200, 100)}, {Size(400, 34)}, {200})
    \cup
    Calls({"tiled"}, TiledOptions({Omitted}, {Omitted}, {Omitted}, {Omitted}),
          {Size(80, 60)}, {Size(200, 100)}, {Size(1, 1)}, {200})

\* One geometry, every alpha byte, opacities below, at and above 1.
Opacities ==
    { Rat(0, 1), Rat(3, 20), Rat(7, 20), Rat(1, 2), Rat(1, 1), Rat(3, 2), Rat(2, 1) }

AlphaCalls ==
    Calls({"fixed"},
          FixedOptions({Given(1)}, {Omitted}, {Given(0)}, Maybe(Opacities)),
          {Size(16, 16)}, {Size(1, MaxPixels)}, {Size(MaxPixels, 1)}, 0..(ByteWidth - 1))
    \cup
    Calls({"tiled"},
          TiledOptions({Given(1)}, Maybe(Opacities), {Omitted},
                       {Given([cn |-> 1, sn |-> 0, q |-> 1])}),
          {Size(16, 16)}, {Size(1, MaxPixels)}, {Size(1, 1)}, 0..(ByteWidth - 1))

\* The state on entry to the function called.
Entry(call) ==
    /\ mode = call.mode
    /\ options = call.options
    /\ image = call.image
    /\ logoFile = call.logoFile
    /\ logoPixels = SamplePixels(Resize(call.logoFile, Default(call.options.logoWidth,
                        IF call.mode = "fixed" THEN FixedLogoWidth ELSE TiledLogoWidth)),
                        call.alpha)
    /\ captionFile = call.captionFile
    /\ captionPixels = SamplePixels(call.captionFile, call.alpha)
    /\ pc = IF call.mode = "fixed" THEN "logo" ELSE "imageMetadata"
    /\ NoLocals
    /\ thrown = NoError
    /\ result = Pending

\* Nothing asked of the limiter, nothing returned, no request, no response.
NoDecision == [kind |-> "none"]
NoResult == [kind |-> "none"]
NoRequest == [kind |-> "none"]
NoResponse == [kind |-> "none"]

\* The identifiers getClientIp gives the requests.
Identifiers == {"203.0.113.7", "198.51.100.2", "unknown"}

\* GET /api/generated has not been asked.
NotListed == [kind |-> "none"]

\* Nothing has been generated yet.
NoGallery ==
    /\ files = {}
    /\ listing = NotListed

\* No request handler runs: the watermark functions are called directly.
NoServer ==
    /\ NoGallery
    /\ env = [demoPassword |-> Omitted, upstash |-> FALSE]
    /\ store = [id \in Identifiers |-> 0]
    /\ now = 0
    /\ request = NoRequest
    /\ rpc = "off"
    /\ decision = NoDecision
    /\ rateLimitResult = NoResult
    /\ effects = << >>
    /\ response = NoResponse

\* No other call is in flight.
Alone == [kind |-> "none"]

Init ==
    /\ \E call \in SmallFixedCalls \cup ExampleFixedCalls \cup SmallTiledCalls
                     \cup DefaultCalls : Entry(call)
    /\ waiting = Alone
    /\ NoServer

InitAlpha ==
    /\ \E call \in AlphaCalls : Entry(call)
    /\ waiting = Alone
    /\ NoServer

Next ==
    \/ FixedLogo
    \/ FixedLogoMetadata
    \/ FixedCaption
    \/ FixedCompose
    \/ FixedDimensions
    \/ FixedPlace
    \/ FixedComposite
    \/ TiledImageMetadata
    \/ TiledLogo
    \/ TiledRotateLogo
    \/ TiledGrid
    \/ TiledPattern
    \/ TiledRotate
    \/ TiledCrop
    \/ TiledComposite
    \/ Catch

\* Small and worked-example calls of both functions.
Spec == Init /\ [][Next]_vars

\* Calls that differ in the alpha bytes and the opacity only.
SpecAlpha == InitAlpha /\ [][Next]_vars

\* Tile pitches below, at and above zero: spacing from -3 up.
PitchCalls ==
    Calls({"tiled"},
          TiledOptions({Given(w) : w \in 1..MaxAsset}, {Omitted},
                       {Given(sp) : sp \in (-3)..MaxSpacing},
                       {Given([cn |-> 1, sn |-> 0, q |-> 1]),
                        Given([cn |-> 3, sn |-> 4, q |-> 5])}),
          Sizes(MaxImg - 1), LogoShapes, {Size(1, 1)}, {200})

InitPitch ==
    /\ \E call \in PitchCalls : Entry(call)
    /\ waiting = Alone
    /\ NoServer

NextPitch ==
    \/ TiledImageMetadata
    \/ TiledLogo
    \/ TiledRotateLogo
    \/ TiledGrid
    \/ TiledPattern
    \/ TiledRotate
    \/ TiledCrop
    \/ TiledComposite
    \/ Catch

\* Step-and-repeat calls whose spacing may be negative.
SpecPitch == InitPitch /\ [][NextPitch]_vars

(***************************************************************************)
(* Two calls in flight.  Each stage above ends at an await; there the      *)
(* event loop may go on with the other call.  A call's parameters and      *)
(* locals live in its own activation, and the module has no variable       *)
(* outside the two functions.                                              *)
(***************************************************************************)
\* The activation of the running call; id names the call.
Here(id) ==
    [kind |-> "call", id |-> id,
     mode |-> mode, options |-> options, image |-> image, logoFile |-> logoFile,
     logoPixels |-> logoPixels, captionFile |-> captionFile,
     captionPixels |-> captionPixels, pc |-> pc, logo |-> logo,
     logoMetadata |-> logoMetadata, textBuffer |-> textBuffer,
     textMetadata |-> textMetadata, combinedWatermark |-> combinedWatermark,
     imageMetadata |-> imageMetadata, watermarkMetadata |-> watermarkMetadata,
     compositeOptions |-> compositeOptions, scaled |-> scaled,
     canvasSize |-> canvasSize, composites |-> composites,
     rotatedMetadata |-> rotatedMetadata, logoWithOpacity |-> logoWithOpacity,
     croppedPattern |-> croppedPattern, orientation |-> orientation,
     thrown |-> thrown, result |-> result]

\* The activation of a call on entry, before it first runs.
EntryContext(call, id) ==
    [kind |-> "call", id |-> id,
     mode |-> call.mode, options |-> call.options, image |-> call.image,
     logoFile |-> call.logoFile,
     logoPixels |-> SamplePixels(Resize(call.logoFile, Default(call.options.logoWidth,
                        IF call.mode = "fixed" THEN FixedLogoWidth ELSE TiledLogoWidth)),
                        call.alpha),
     captionFile |-> call.captionFile,
     captionPixels |-> SamplePixels(call.captionFile, call.alpha),
     pc |-> IF call.mode = "fixed" THEN "logo" ELSE "imageMetadata",
     logo |-> NoBuffer, logoMetadata |-> NoMetadata, textBuffer |-> NoBuffer,
     textMetadata |-> NoMetadata, combinedWatermark |-> NoWatermark,
     imageMetadata |-> NoMetadata, watermarkMetadata |-> NoMetadata,
     compositeOptions |-> NoOverlay, scaled |-> {}, canvasSize |-> 0,
     composites |-> << >>, rotatedMetadata |-> NoMetadata,
     logoWithOpacity |-> NoBuffer, croppedPattern |-> NoRegion,
     orientation |-> AsLoaded,
     thrown |-> NoError, result |-> Pending]

\* Resume with logoMetadata held in a variable of the module, shared by the
\* calls, instead of a const of the function.
ResumeSharingLogoMetadata(c) ==
    /\ mode' = c.mode
    /\ options' = c.options
    /\ image' = c.image
    /\ logoFile' = c.logoFile
    /\ logoPixels' = c.logoPixels
    /\ captionFile' = c.captionFile
    /\ captionPixels' = c.captionPixels
    /\ pc' = c.pc
    /\ logo' = c.logo
    /\ logoMetadata' = logoMetadata
    /\ textBuffer' = c.textBuffer
    /\ textMetadata' = c.textMetadata
    /\ combinedWatermark' = c.combinedWatermark
    /\ imageMetadata' = c.imageMetadata
    /\ watermarkMetadata' = c.watermarkMetadata
    /\ compositeOptions' = c.compositeOptions
    /\ scaled' = c.scaled
    /\ canvasSize' = c.canvasSize
    /\ composites' = c.composites
    /\ rotatedMetadata' = c.rotatedMetadata
    /\ logoWithOpacity' = c.logoWithOpacity
    /\ croppedPattern' = c.croppedPattern
    /\ orientation' = c.orientation
    /\ thrown' = c.thrown
    /\ result' = c.result

\* The call c goes on where it awaited, with its own parameters and locals.
Resume(c) ==
    /\ mode' = c.mode
    /\ options' = c.options
    /\ image' = c.image
    /\ logoFile' = c.logoFile
    /\ logoPixels' = c.logoPixels
    /\ captionFile' = c.captionFile
    /\ captionPixels' = c.captionPixels
    /\ pc' = c.pc
    /\ logo' = c.logo
    /\ logoMetadata' = c.logoMetadata
    /\ textBuffer' = c.textBuffer
    /\ textMetadata' = c.textMetadata
    /\ combinedWatermark' = c.combinedWatermark
    /\ imageMetadata' = c.imageMetadata
    /\ watermarkMetadata' = c.watermarkMetadata
    /\ compositeOptions' = c.compositeOptions
    /\ scaled' = c.scaled
    /\ canvasSize' = c.canvasSize
    /\ composites' = c.composites
    /\ rotatedMetadata' = c.rotatedMetadata
    /\ logoWithOpacity' = c.logoWithOpacity
    /\ croppedPattern' = c.croppedPattern
    /\ orientation' = c.orientation
    /\ thrown' = c.thrown
    /\ result' = c.result

\* The id of the running call: the two calls are 1 and 2.
Running == IF waiting = Alone THEN 1 ELSE 3 - waiting.id

\* At an await the running call is parked and the other call goes on.
Switch ==
    /\ waiting # Alone
    /\ waiting' = Here(Running)
    /\ Resume(waiting)
    /\ UNCHANGED <<env, store, now, request, rpc, decision, rateLimitResult, effects,
                   response, gallery>>

\* A few calls of each function, on different images and options.
TwoCalls ==
    Calls({"fixed"},
          FixedOptions({Given(1)}, {Omitted, Given("southeast")}, {Given(0)},
                       {Given(Rat(1, 2))}),
          {Size(2, TextPadding + 3), Size(3, TextPadding + 4)},
          {Size(1, 1)}, {Size(1, 1)}, {200})
    \cup
    Calls({"tiled"},
          TiledOptions({Given(1)}, {Omitted}, {Given(1)},
                       {Omitted, Given([cn |-> 3, sn |-> 4, q |-> 5])}),
          {Size(2, 3), Size(3, 1)}, {Size(1, 1)}, {Size(1, 1)}, {200})

InitTwo ==
    \E first \in TwoCalls, second \in TwoCalls :
        /\ Entry(first)
        /\ waiting = EntryContext(second, 2)
        /\ NoServer

NextTwo == Next \/ Switch

\* Two calls whose stages interleave at their awaits.
SpecTwo == InitTwo /\ [][NextTwo]_vars

(***************************************************************************)
(* src/lib/ratelimit.ts                                                    *)
(***************************************************************************)
WindowLimit == 100
DevLimit == 10
DevRemaining == 10
HourMs == 3600000

\* lines 69-84: getClientIp; x-forwarded-for is carried as the list of its
\* comma-separated, trimmed entries
GetClientIp(req) ==
    IF req.forwardedFor # Omitted
    THEN req.forwardedFor[1][1]
    ELSE IF req.realIp # Omitted THEN req.realIp[1] ELSE "unknown"

\* ratelimit.limit(identifier): the limiter counts the request into the
\* identifier's window unless the window is full, and answers with more than
\* the four fields checkRateLimit hands on.
Limit(counts, identifier, t) ==
    IF counts[identifier] < WindowLimit
    THEN [success |-> TRUE, limit |-> WindowLimit,
          remaining |-> WindowLimit - counts[identifier] - 1,
          reset |-> HourMs * (t \div HourMs + 1), pending |-> "analytics"]
    ELSE [success |-> FALSE, limit |-> WindowLimit, remaining |-> 0,
          reset |-> HourMs * (t \div HourMs + 1), pending |-> "analytics"]

\* Counted that counts every request twice.
CountedTwice(counts, identifier) ==
    IF counts[identifier] < WindowLimit
    THEN [counts EXCEPT ![identifier] = @ + 2]
    ELSE counts

Counted(counts, identifier) ==
    IF counts[identifier] < WindowLimit
    THEN [counts EXCEPT ![identifier] = @ + 1]
    ELSE counts

\* RateLimited that reports the remaining requests as the limit.
RateLimitedRemainingAsLimit(d) ==
    [success |-> d.success, limit |-> d.remaining, remaining |-> d.remaining,
     reset |-> d.reset]

\* lines 57-62: the result of a configured checkRateLimit
RateLimited(d) ==
    [success |-> d.success, limit |-> d.limit, remaining |-> d.remaining,
     reset |-> d.reset]

\* lines 47-52: the result when Upstash is not configured
Unlimited(t) ==
    [success |-> TRUE, limit |-> DevLimit, remaining |-> DevRemaining,
     reset |-> t + HourMs]

(***************************************************************************)
(* src/app/api/generate/route.ts: POST                                     *)
(***************************************************************************)
NoHeaders == [kind |-> "none"]

\* NextResponse.json({ success, error }, { status, headers })
Json(status, error, headers) ==
    [status |-> status, success |-> status = 200, error |-> error, headers |-> headers]

\* lines 266-283
TooManyRequests(rl) ==
    Json(429, "Rate limit exceeded. Try again after", 
         [limit |-> rl.limit, remaining |-> rl.remaining, reset |-> rl.reset])

\* product-scenes.json: the ids of mockupProducts
ProductIds == {"wine-bottle"}
\* line 311
MaxSize == 10 * 1024 * 1024
\* line 321
AllowedTypes == {"image/png", "image/jpeg", "image/jpg"}
Pass == [kind |-> "pass"]

\* Validation that looks at the file's type before its size.
ValidationTypeBeforeSize(req, rl) ==
    IF ~rl.success
    THEN TooManyRequests(rl)
    ELSE IF req.artwork = Omitted \/ req.labelSize \in {Omitted, Given("")}
            \/ req.productId \in {Omitted, Given("")}
    THEN Json(400, "Missing required fields", NoHeaders)
    ELSE IF req.productId[1] \notin ProductIds
    THEN Json(400, "Invalid product type", NoHeaders)
    ELSE IF req.artwork[1].type \notin AllowedTypes
    THEN Json(400, "Only PNG and JPEG files are accepted", NoHeaders)
    ELSE IF req.artwork[1].size > MaxSize
    THEN Json(400, "File size exceeds 10MB limit", NoHeaders)
    ELSE Pass

\* lines 266-328: the checks after checkRateLimit has answered, in order
Validation(req, rl) ==
    IF ~rl.success
    THEN TooManyRequests(rl)
    ELSE IF req.artwork = Omitted \/ req.labelSize \in {Omitted, Given("")}
            \/ req.productId \in {Omitted, Given("")}
    THEN Json(400, "Missing required fields", NoHeaders)
    ELSE IF req.productId[1] \notin ProductIds
    THEN Json(400, "Invalid product type", NoHeaders)
    ELSE IF req.artwork[1].size > MaxSize
    THEN Json(400, "File size exceeds 10MB limit", NoHeaders)
    ELSE IF req.artwork[1].type \notin AllowedTypes
    THEN Json(400, "Only PNG and JPEG files are accepted", NoHeaders)
    ELSE Pass

\* lines 204-208 and 347-369: the watermark function the request selects;
\* WATERMARK_PATHS is an object literal, so it also answers to the names it
\* inherits ("constructor")
WatermarkPaths == {"ol-logo", "olg-watermark"}
InheritedKeys == {"constructor"}
SelectedWatermark(req) ==
    IF req.watermarkEnabled = Given("true") /\ req.watermarkId \notin {Omitted, Given("")}
    THEN IF req.watermarkId[1] = "olg-step-repeat"
         THEN "addStepAndRepeatWatermark"
         ELSE IF req.watermarkId[1] \in WatermarkPaths \cup InheritedKeys
         THEN "addLogoWatermark"
         ELSE "none"
    ELSE "none"

\* POST returns r.
Respond(r) ==
    /\ response' = r
    /\ rpc' = "responded"

\* Respond500 that answers 200 and drops the error.
RespondOkInstead(message) == Respond(Json(200, "", NoHeaders))

\* lines 387-395: catch (error)
Respond500(message) == Respond(Json(500, message, NoHeaders))

\* lines 249-260: the form data, then the password check
RouteFormData ==
    /\ rpc = "formData"
    /\ \/ Respond500("formData failed")
       \/ IF env.demoPassword # Omitted /\ request.password # env.demoPassword
          THEN Respond(Json(401, "Invalid password", NoHeaders))
          ELSE /\ rpc' = "checkRateLimit"
               /\ UNCHANGED response
    /\ UNCHANGED <<waiting, env, store, now, request, decision, rateLimitResult, effects>>
    /\ UNCHANGED <<inputs, pc, sharedLocals, fixedLocals, tiledLocals, thrown, result, gallery>>

\* ratelimit.ts lines 39-63: checkRateLimit(getClientIp(request))
CheckRateLimit ==
    /\ rpc = "checkRateLimit"
    /\ IF ~env.upstash
       THEN /\ rateLimitResult' = Unlimited(now)
            /\ rpc' = "validate"
            /\ UNCHANGED <<store, decision, response>>
       ELSE \/ /\ Respond500("limiter unreachable")
               /\ UNCHANGED <<store, decision, rateLimitResult>>
            \/ /\ decision' = Limit(store, GetClientIp(request), now)
               /\ store' = Counted(store, GetClientIp(request))
               /\ rateLimitResult' = RateLimited(decision')
               /\ rpc' = "validate"
               /\ UNCHANGED response
    /\ UNCHANGED <<waiting, env, now, request, effects>>
    /\ UNCHANGED <<inputs, pc, sharedLocals, fixedLocals, tiledLocals, thrown, result, gallery>>

\* lines 266-331: the checks, up to the read of the file
RouteValidate ==
    /\ rpc = "validate"
    /\ IF Validation(request, rateLimitResult) # Pass
       THEN Respond(Validation(request, rateLimitResult))
       ELSE \/ Respond500("arrayBuffer failed")
            \/ /\ rpc' = "saveUpload"
               /\ UNCHANGED response
    /\ UNCHANGED <<waiting, env, store, now, request, decision, rateLimitResult, effects>>
    /\ UNCHANGED <<inputs, pc, sharedLocals, fixedLocals, tiledLocals, thrown, result, gallery>>

\* lines 333-337: hash and save the upload
RouteSaveUpload ==
    /\ rpc = "saveUpload"
    /\ \/ /\ Respond500("saveUploadedFile failed")
          /\ UNCHANGED effects
       \/ /\ effects' = Append(effects, "saveUploadedFile")
          /\ rpc' = "generate"
          /\ UNCHANGED response
    /\ UNCHANGED <<waiting, env, store, now, request, decision, rateLimitResult>>
    /\ UNCHANGED <<inputs, pc, sharedLocals, fixedLocals, tiledLocals, thrown, result, gallery>>

\* lines 339-343: build the prompt, call the image-generation service
RouteGenerate ==
    /\ rpc = "generate"
    /\ effects' = Append(effects, "generateProductMockup")
    /\ \/ Respond500("Gemini API error")
       \/ /\ rpc' = "watermark"
          /\ UNCHANGED response
    /\ UNCHANGED <<waiting, env, store, now, request, decision, rateLimitResult>>
    /\ UNCHANGED <<inputs, pc, sharedLocals, fixedLocals, tiledLocals, thrown, result, gallery>>

\* lines 345-369: the watermark the request selects, if any
RouteWatermark ==
    /\ rpc = "watermark"
    /\ IF SelectedWatermark(request) = "none"
       THEN /\ rpc' = "saveImage"
            /\ UNCHANGED <<effects, response>>
       ELSE /\ effects' = Append(effects, SelectedWatermark(request))
            /\ \/ Respond500(IF SelectedWatermark(request) = "addLogoWatermark"
                             THEN "Failed to add watermark"
                             ELSE "Failed to add step and repeat watermark")
               \/ /\ request.watermarkId[1] \notin InheritedKeys
                  /\ rpc' = "saveImage"
                  /\ UNCHANGED response
    /\ UNCHANGED <<waiting, env, store, now, request, decision, rateLimitResult>>
    /\ UNCHANGED <<inputs, pc, sharedLocals, fixedLocals, tiledLocals, thrown, result, gallery>>

\* lines 371-386: save the image, answer 200
RouteSaveImage ==
    /\ rpc = "saveImage"
    /\ \/ /\ Respond500("saveBufferImage failed")
          /\ UNCHANGED effects
       \/ /\ effects' = Append(effects, "saveBufferImage")
          /\ Respond(Json(200, "", NoHeaders))
    /\ UNCHANGED <<waiting, env, store, now, request, decision, rateLimitResult>>
    /\ UNCHANGED <<inputs, pc, sharedLocals, fixedLocals, tiledLocals, thrown, result, gallery>>

Files == [size : {MaxSize, MaxSize + 1}, type : {"image/png", "image/gif"}]

\* watermarkEnabled and watermarkId as the form sends them
WatermarkFields ==
    { <<Omitted, Given("ol-logo")>>, <<Given("true"), Omitted>>,
      <<Given("true"), Given("olg-step-repeat")>>, <<Given("true"), Given("ol-logo")>>,
      <<Given("true"), Given("bogus")>>, <<Given("true"), Given("constructor")>>,
      <<Given("true"), Given("olg-watermark")>>, <<Given("false"), Given("ol-logo")>> }

Requests ==
    { [password |-> f.password, forwardedFor |-> f.forwardedFor, realIp |-> f.realIp,
       artwork |-> f.artwork, labelSize |-> f.labelSize, productId |-> f.productId,
       watermarkEnabled |-> w[1], watermarkId |-> w[2]] :
        f \in [password : Maybe({"demo", "wrong"}),
               forwardedFor : Maybe({<<"203.0.113.7", "10.0.0.1">>}),
               realIp : Maybe({"198.51.100.2"}),
               artwork : Maybe(Files),
               labelSize : Maybe({"3x2"}),
               productId : {Given(""), Given("wine-bottle"), Given("nope")}],
        w \in WatermarkFields }

\* line 243: a request arrives
Arrive ==
    /\ rpc = "idle"
    /\ now < MaxRequests
    /\ \E req \in Requests : request' = req
    /\ now' = now + 1
    /\ rpc' = "formData"
    /\ UNCHANGED <<waiting, env, store, decision, rateLimitResult, effects, response>>
    /\ UNCHANGED <<inputs, pc, sharedLocals, fixedLocals, tiledLocals, thrown, result, gallery>>

\* The response has gone out: the handler's activation is over.
Return ==
    /\ rpc = "responded"
    /\ rpc' = "idle"
    /\ request' = NoRequest
    /\ decision' = NoDecision
    /\ rateLimitResult' = NoResult
    /\ effects' = << >>
    /\ response' = NoResponse
    /\ UNCHANGED <<waiting, env, store, now>>
    /\ UNCHANGED <<inputs, pc, sharedLocals, fixedLocals, tiledLocals, thrown, result, gallery>>

\* No watermark call is in flight.
NoCall ==
    /\ waiting = Alone
    /\ mode = "none"
    /\ options = Omitted
    /\ image = NoMetadata
    /\ logoFile = NoMetadata
    /\ logoPixels = << >>
    /\ captionFile = NoMetadata
    /\ captionPixels = << >>
    /\ pc = "idle"
    /\ NoLocals
    /\ thrown = NoError
    /\ result = Pending

\* The server is up with some environment; the limiter's windows in Redis
\* are empty, one short of full, or full.
InitRoute ==
    /\ env \in [demoPassword : Maybe({"demo"}), upstash : BOOLEAN]
    /\ \E count \in {0, WindowLimit - 1, WindowLimit} :
         store = [id \in Identifiers |-> count]
    /\ now = 0
    /\ request = NoRequest
    /\ rpc = "idle"
    /\ decision = NoDecision
    /\ rateLimitResult = NoResult
    /\ effects = << >>
    /\ response = NoResponse
    /\ NoGallery
    /\ NoCall

NextRoute ==
    \/ Arrive
    \/ RouteFormData
    \/ CheckRateLimit
    \/ RouteValidate
    \/ RouteSaveUpload
    \/ RouteGenerate
    \/ RouteWatermark
    \/ RouteSaveImage
    \/ Return

\* Requests to POST /api/generate, one after the other.
SpecRoute == InitRoute /\ [][NextRoute]_vars

(***************************************************************************)
(* src/app/api/generated/route.ts: the gallery, and the names POST gives   *)
(* the images it saves.  A string is a sequence of its characters here, so *)
(* that replace, split, join and parseInt are computed as the code does.   *)
(***************************************************************************)
MaxFiles == 2

DigitChars == <<"0", "1", "2", "3", "4", "5", "6", "7", "8", "9">>

\* `${timestamp}`: the decimal digits of a non-negative integer
RECURSIVE NumberToString(_)
NumberToString(n) ==
    IF n < 10
    THEN <<DigitChars[n + 1]>>
    ELSE NumberToString(n \div 10) \o <<DigitChars[(n % 10) + 1]>>

Png == <<".", "p", "n", "g">>
Hyphen == "-"

\* generate/route.ts line 373: `${artworkHash}-${labelSize}-${timestamp}.png`
Filename(artworkHash, labelSize, timestamp) ==
    artworkHash \o <<Hyphen>> \o labelSize \o <<Hyphen>> \o NumberToString(timestamp)
    \o Png

\* pat occurs in s at position i
OccursAt(s, i, pat) ==
    /\ i + Len(pat) - 1 <= Len(s)
    /\ SubSeq(s, i, i + Len(pat) - 1) = pat

\* s.replace(pat, ''): the first occurrence of pat is taken out
RemoveFirst(s, pat) ==
    IF \E i \in 1..Len(s) : OccursAt(s, i, pat)
    THEN LET first == CHOOSE i \in 1..Len(s) :
                        /\ OccursAt(s, i, pat)
                        /\ \A j \in 1..(i - 1) : ~OccursAt(s, j, pat)
         IN  SubSeq(s, 1, first - 1) \o SubSeq(s, first + Len(pat), Len(s))
    ELSE s

\* s.split(sep)
RECURSIVE Split(_, _)
Split(s, sep) ==
    IF \E i \in 1..Len(s) : s[i] = sep
    THEN LET first == CHOOSE i \in 1..Len(s) :
                        s[i] = sep /\ \A j \in 1..(i - 1) : s[j] # sep
         IN  <<SubSeq(s, 1, first - 1)>> \o Split(SubSeq(s, first + 1, Len(s)), sep)
    ELSE <<s>>

\* parts.join(sep)
RECURSIVE Join(_, _)
Join(parts, sep) ==
    IF parts = << >>
    THEN << >>
    ELSE IF Len(parts) = 1
         THEN parts[1]
         ELSE parts[1] \o <<sep>> \o Join(Tail(parts), sep)

IsDigit(c) == \E d \in 1..10 : DigitChars[d] = c
DigitValue(c) == (CHOOSE d \in 1..10 : DigitChars[d] = c) - 1

RECURSIVE LeadingDigits(_)
LeadingDigits(s) ==
    IF s # << >> /\ IsDigit(Head(s))
    THEN <<Head(s)>> \o LeadingDigits(Tail(s))
    ELSE << >>

RECURSIVE DecimalValue(_)
DecimalValue(digits) ==
    IF digits = << >>
    THEN 0
    ELSE 10 * DecimalValue(SubSeq(digits, 1, Len(digits) - 1))
         + DigitValue(digits[Len(digits)])

\* parseInt(s): the number its leading digits spell, NaN when it has none.
\* (No part of a name here starts with a blank, a sign or 0x.)
ParseInt(s) ==
    IF LeadingDigits(s) = << >> THEN NaN ELSE DecimalValue(LeadingDigits(s))

Unknown == <<"u", "n", "k", "n", "o", "w", "n">>

\* generated/route.ts lines 24-40
ParseFilename(filename, url) ==
    LET baseName == RemoveFirst(filename, Png)
        parts == Split(baseName, Hyphen)
        timestamp == IF Len(parts) >= 3 THEN ParseInt(parts[Len(parts)]) ELSE 0
        labelSize == IF Len(parts) >= 3 THEN parts[Len(parts) - 1] ELSE Unknown
        joined == Join(SubSeq(parts, 1, Len(parts) - 2), Hyphen)
        artworkHash == IF joined = << >> THEN Unknown ELSE joined
        truthy == /\ Len(parts) >= 3
                  /\ LeadingDigits(parts[Len(parts)]) # << >>
                  /\ DecimalValue(LeadingDigits(parts[Len(parts)])) # 0
    IN  [filename |-> filename, url |-> url, timestamp |-> timestamp,
         artworkHash |-> artworkHash, labelSize |-> labelSize,
         createdAt |-> IF truthy THEN <<"at", timestamp>> ELSE <<"at", "now">>]

\* `/generated/${filename}`
UrlOf(filename) == <<"/", "g", "e", "n", "e", "r", "a", "t", "e", "d", "/">> \o filename

\* .sort((a, b) => b.timestamp - a.timestamp): the sort is stable, x goes
\* behind every image that is not older than it
RECURSIVE Insert(_, _)
Insert(sorted, x) ==
    IF sorted = << >>
    THEN <<x>>
    ELSE IF Head(sorted).timestamp >= x.timestamp
         THEN <<Head(sorted)>> \o Insert(Tail(sorted), x)
         ELSE <<x>> \o sorted

RECURSIVE SortNewestFirst(_)
SortNewestFirst(images) ==
    IF images = << >>
    THEN << >>
    ELSE Insert(SortNewestFirst(SubSeq(images, 1, Len(images) - 1)),
                images[Len(images)])

\* file.endsWith('.png')
EndsWithPng(file) == Len(file) >= Len(Png) /\ OccursAt(file, Len(file) - Len(Png) + 1, Png)

\* The orders readdir can give the names of a directory.
Readdir(dir) ==
    { order \in [1..Cardinality(dir) -> dir] :
        \A i, j \in 1..Cardinality(dir) : i # j => order[i] # order[j] }

\* lines 69-74: filter, map, sort
RECURSIVE ParsedPngs(_)
ParsedPngs(order) ==
    IF order = << >>
    THEN << >>
    ELSE (IF EndsWithPng(Head(order))
          THEN <<ParseFilename(Head(order), UrlOf(Head(order)))>>
          ELSE << >>) \o ParsedPngs(Tail(order))

\* md5 digests in hex, cut short
Hashes == { <<"a", "1", "b", "2">>, <<"0", "f">> }

\* labelSize as the form sends it: any text that is not empty
LabelSizes ==
    { <<"3", "x", "2">>, <<"3", "d">>, <<"2", ".", "5", "x", "3">>, <<"3", "-", "2">> }

\* Date.now(), in numbers the checker's integers hold
Timestamps == {7, 1000, 1706123456}

\* generate/route.ts lines 371-374 with imageProcessing.ts lines 83-98: the
\* image is written to public/generated under its name
SaveGenerated ==
    /\ Cardinality(files) < MaxFiles
    /\ \E artworkHash \in Hashes, labelSize \in LabelSizes, timestamp \in Timestamps :
         files' = files \cup {Filename(artworkHash, labelSize, timestamp)}
    /\ UNCHANGED <<waiting, env, store, now, request, rpc, decision, rateLimitResult,
                   effects, response, listing>>
    /\ UNCHANGED <<inputs, pc, sharedLocals, fixedLocals, tiledLocals, thrown, result>>

\* generated/route.ts lines 60-87: GET lists the directory
GetImages ==
    /\ \E order \in Readdir(files) :
         LET images == SortNewestFirst(ParsedPngs(order))
         IN  listing' = [kind |-> "listed", success |-> TRUE, images |-> images,
                         count |-> Len(images)]
    /\ UNCHANGED <<waiting, env, store, now, request, rpc, decision, rateLimitResult,
                   effects, response, files>>
    /\ UNCHANGED <<inputs, pc, sharedLocals, fixedLocals, tiledLocals, thrown, result>>

InitGallery ==
    /\ NoServer
    /\ NoCall

NextGallery ==
    \/ SaveGenerated
    \/ GetImages

\* Images are saved and the gallery is listed, in any order.
SpecGallery == InitGallery /\ [][NextGallery]_vars

(***************************************************************************)
(* Properties                                                              *)
(***************************************************************************)
Placed == mode = "fixed" /\ pc \in {"composite", "done"}
Composed == mode = "fixed" /\ pc \in {"dimensions", "place", "composite", "done"}

\* C1: in addLogoWatermark the offset handed to the compositor is, for the
\* image size, the combined mark's size and the padding: southeast
\* (imgW - markW - padding, imgH - markH - padding), southwest (padding,
\* imgH - markH - padding), northeast (imgW - markW - padding, padding),
\* northwest (padding, padding), center the floors of the halved differences,
\* rounded toward minus infinity; 1024x1024, 400x194, southwest, 20 gives
\* (20, 810).
PlacementOffsets ==
    Placed =>
        LET imgW == image.width
            imgH == image.height
            markW == combinedWatermark.width
            markH == combinedWatermark.height
            left == compositeOptions.left
            top == compositeOptions.top
        IN  /\ position = "southeast" =>
                left = imgW - markW - padding /\ top = imgH - markH - padding
            /\ position = "southwest" =>
                left = padding /\ top = imgH - markH - padding
            /\ position = "northeast" =>
                left = imgW - markW - padding /\ top = padding
            /\ position = "northwest" =>
                left = padding /\ top = padding
            /\ position = "center" =>
                /\ 2 * left <= imgW - markW /\ imgW - markW < 2 * left + 2
                /\ 2 * top <= imgH - markH /\ imgH - markH < 2 * top + 2
            /\ ( /\ image = Size(1024, 1024)
                 /\ markW = 400 /\ markH = 194
                 /\ position = "southwest" /\ padding = 20 )
               => left = 20 /\ top = 810

PlacementOffsetsWitness ==
    /\ pc = "done"
    /\ mode = "fixed"
    /\ image = Size(1024, 1024)
    /\ combinedWatermark.width = 400 /\ combinedWatermark.height = 194
    /\ options.position = Given("southwest")
    /\ padding = 20
    /\ compositeOptions = [top |-> 810, left |-> 20]

\* C2: for a position that is none of the five (or is omitted)
\* addLogoWatermark computes the offset it computes for "southwest" with the
\* same image, mark and padding.
UnknownPositionIsSouthwest ==
    (Placed /\ (options.position = Omitted \/ position \notin Positions)) =>
        compositeOptions = Offset("southwest", imageMetadata, watermarkMetadata, padding)

UnknownPositionWitness ==
    /\ pc = "done"
    /\ mode = "fixed"
    /\ position = "north"
    /\ compositeOptions.left = padding
    /\ compositeOptions.top = image.height - combinedWatermark.height - padding

\* C3: the combined mark is max(logo width, caption width) wide and logo
\* height + caption height + 10 high, the logo at (0, 0) and the caption at
\* (0, logo height + 10); the offset is computed from these dimensions: a
\* 500x500 image, 100x50 logo, 200x20 caption, southeast, padding 10 gives a
\* 200x80 mark at (290, 410).  The caption's width and height are the ones
\* the function works with (textWidth, textHeight).
CombinedMarkGeometry ==
    Composed =>
        LET logoW == logo.width
            logoH == logo.height
            captionW == TextWidth(textMetadata)
            captionH == TextHeight(textMetadata)
            mark == combinedWatermark
        IN  /\ ~Unavailable(textMetadata) =>
                captionW = textBuffer.width /\ captionH = textBuffer.height
            /\ mark.width >= logoW /\ mark.width >= captionW
            /\ mark.width \in {logoW, captionW}
            /\ mark.height = logoH + captionH + 10
            /\ mark.layers[1] = [input |-> "logo", top |-> 0, left |-> 0]
            /\ mark.layers[2] = [input |-> "textBuffer", top |-> logoH + 10, left |-> 0]
            /\ Placed => compositeOptions = Offset(position, image, mark, padding)
            /\ ( /\ Placed
                 /\ image = Size(500, 500)
                 /\ logoW = 100 /\ logoH = 50 /\ captionW = 200 /\ captionH = 20
                 /\ position = "southeast" /\ padding = 10 )
               => /\ mark.width = 200 /\ mark.height = 80
                  /\ compositeOptions = [top |-> 410, left |-> 290]

CombinedMarkWitness ==
    /\ pc = "done"
    /\ mode = "fixed"
    /\ image = Size(500, 500)
    /\ logo.width = 100 /\ logo.height = 50
    /\ textBuffer.width = 200 /\ textBuffer.height = 20
    /\ position = "southeast" /\ padding = 10
    /\ combinedWatermark.width = 200 /\ combinedWatermark.height = 80
    /\ compositeOptions = [top |-> 410, left |-> 290]

(***************************************************************************)
(* Alpha scaling                                                           *)
(***************************************************************************)
Clamp(v) == IF v < 0 THEN 0 ELSE IF v > 255 THEN 255 ELSE v

\* Every alpha byte of after is the rounded, clamped product of the byte of
\* before and the opacity; every other byte is the byte of before.
ScaledAndClamped(before, after, op) ==
    /\ Len(after) = Len(before)
    /\ \A i \in 1..Len(before) :
         after[i] = IF i % 4 = 0
                    THEN Clamp(MathRound(before[i] * op.n, op.d))
                    ELSE before[i]

LogoLoaded ==
    \/ mode = "fixed" /\ pc \in {"logoMetadata", "caption", "compose", "dimensions",
                                 "place", "composite", "done"}
    \/ mode = "tiled" /\ pc \in {"rotateLogo", "grid", "pattern", "rotate", "crop",
                                 "composite", "done"}
CaptionLoaded ==
    mode = "fixed" /\ pc \in {"compose", "dimensions", "place", "composite", "done"}

ScaledLogo == IF mode = "fixed" THEN logo ELSE logoWithOpacity

\* C4: wherever opacity scaling ran (logo or caption in fixed mode, logo in
\* step-and-repeat mode) every alpha byte a is round(a * opacity) clamped to
\* [0, 255] and the R, G and B bytes are unchanged.
AlphaScaledAndClamped ==
    /\ (LogoLoaded /\ "logo" \in scaled) =>
          ScaledAndClamped(logoPixels, ScaledLogo.data, opacity)
    /\ (CaptionLoaded /\ "caption" \in scaled) =>
          ScaledAndClamped(captionPixels, textBuffer.data, opacity)

\* C5: with opacity 1.0 the alpha bytes are unchanged in both modes: in fixed
\* mode no scaling step runs, in step-and-repeat mode the step runs and maps
\* every byte to itself.
FullOpacityKeepsAlpha ==
    (opacity.n = opacity.d) =>
        /\ LogoLoaded => ScaledLogo.data = logoPixels
        /\ CaptionLoaded => textBuffer.data = captionPixels
        /\ (LogoLoaded /\ mode = "fixed") => "logo" \notin scaled
        /\ CaptionLoaded => "caption" \notin scaled
        /\ (LogoLoaded /\ mode = "tiled") => "logo" \in scaled

FullOpacityWitness ==
    /\ pc = "done"
    /\ mode = "tiled"
    /\ options.opacity = Given(Rat(1, 1))
    /\ "logo" \in scaled
    /\ logoPixels[4] = 200
    /\ logoWithOpacity.data[4] = 200

(***************************************************************************)
(* Outputs, canvas and failures                                            *)
(***************************************************************************)
\* C6: every successful call of either function returns an image whose
\* width and height are those of the target image, whatever the mark,
\* position, padding, spacing and angle.
OutputKeepsImageSize ==
    pc = "done" =>
        /\ result.kind = "buffer"
        /\ result.width = image.width
        /\ result.height = image.height

\* a fixed-position success with the mark hanging over the image's edge
OutputKeepsImageSizeWitness ==
    /\ pc = "done"
    /\ mode = "fixed"
    /\ compositeOptions.top < 0
    /\ compositeOptions.left < 0
    /\ result.width = image.width /\ result.height = image.height
    /\ result.width # combinedWatermark.width

Tiling == mode = "tiled" /\ pc \in {"pattern", "rotate", "crop", "composite", "done"}

\* C7: the canvas of addStepAndRepeatWatermark is a square of side
\* canvasSize = ceil(1.5 * sqrt(W^2 + H^2)): 4 * canvasSize^2 >= 9 * (W^2 + H^2),
\* and no smaller side has that.
CanvasCoversDiagonal ==
    Tiling =>
        LET d2 == image.width * image.width + image.height * image.height
        IN  /\ canvasSize >= 1
            /\ 4 * canvasSize * canvasSize >= 9 * d2
            /\ 4 * (canvasSize - 1) * (canvasSize - 1) < 9 * d2

CanvasCoversDiagonalWitness ==
    /\ pc = "done"
    /\ mode = "tiled"
    /\ image = Size(3, 3)
    /\ canvasSize = 7

\* The corners of the crop window, in the rotated pattern's pixel grid.
CropCorners ==
    { <<croppedPattern.left + dx, croppedPattern.top + dy>> :
        dx \in {0, croppedPattern.width}, dy \in {0, croppedPattern.height} }

\* The point p of the rotated pattern lies in the turned canvasSize square,
\* which shares its centre with the pattern: both coordinates of p along the
\* square's sides, measured from the centre, are at most canvasSize / 2.
InTurnedCanvas(p) ==
    LET x2 == 2 * p[1] - rotatedMetadata.width
        y2 == 2 * p[2] - rotatedMetadata.height
    IN  /\ Abs(x2 * angle.cn + y2 * angle.sn) <= canvasSize * angle.q
        /\ Abs(y2 * angle.cn - x2 * angle.sn) <= canvasSize * angle.q

Cropped == mode = "tiled" /\ pc \in {"composite", "done"}

\* C8: for every image size and angle the W x H window cropped from the
\* centre of the rotated canvas lies inside the turned tiled square: no
\* pixel of the crop comes from the transparent fill of the rotation.
CropInsideTiledCanvas ==
    Cropped =>
        /\ croppedPattern.width = image.width
        /\ croppedPattern.height = image.height
        /\ \A p \in CropCorners : InTurnedCanvas(p)

CropInsideTiledCanvasWitness ==
    /\ pc = "done"
    /\ mode = "tiled"
    /\ image.width = 1 /\ image.height > 3 * image.width
    /\ angle = [cn |-> 3, sn |-> 4, q |-> 5]
    /\ rotatedMetadata.width > canvasSize

\* C9: a failure at any stage of either function ends the call with one
\* error that carries the function's prefix and the cause's message, and with
\* no buffer; a buffer is returned only when no stage failed.
FailuresAreWrapped ==
    /\ thrown # NoError => pc \in {"catch", "failed"}
    /\ pc = "catch" => thrown # NoError /\ result = Pending
    /\ pc = "failed" =>
         /\ result.kind = "error"
         /\ result.cause = thrown
         /\ result.prefix = (IF mode = "fixed"
                             THEN "Failed to add watermark"
                             ELSE "Failed to add step and repeat watermark")
         /\ result.width = 0 /\ result.height = 0
    /\ result.kind = "buffer" => pc = "done" /\ thrown = NoError
    /\ pc = "done" => result.kind = "buffer"
    /\ pc \notin {"done", "failed"} => result = Pending

FailuresAreWrappedWitness ==
    /\ pc = "failed"
    /\ mode = "tiled"
    /\ thrown = "Could not determine rotated pattern dimensions"
    /\ result.kind = "error"
    /\ result.cause = "Could not determine rotated pattern dimensions"

\* C10: building the mark fails whenever the logo or the caption cannot be
\* decoded or lacks a width or a height: the function never goes on to
\* compose a watermark from a caption whose dimensions it could not read.
UnreadableAssetFails ==
    /\ (mode = "fixed" /\ pc \in {"caption", "compose", "dimensions", "place",
                                  "composite", "done"})
          => ~Unavailable(logoMetadata)
    /\ Composed => ~Unavailable(textMetadata)

(***************************************************************************)
(* Dimension checks                                                        *)
(***************************************************************************)
\* The messages of the failures to determine the dimensions of the target
\* image or of an image the function built from the assets.
DimensionCauses(m) ==
    IF m = "fixed"
    THEN {"Could not determine image dimensions",
          "Could not determine watermark dimensions"}
    ELSE {"Could not determine image dimensions",
          "Could not determine logo dimensions",
          "Could not determine rotated pattern dimensions"}

\* The stages that read those dimensions.
DimensionStages(m) ==
    IF m = "fixed" THEN {"dimensions"} ELSE {"imageMetadata", "rotateLogo", "rotate"}

DimensionsKnown ==
    /\ Placed =>
          /\ imageMetadata = [width |-> image.width, height |-> image.height]
          /\ watermarkMetadata = [width |-> combinedWatermark.width,
                                  height |-> combinedWatermark.height]
    /\ (mode = "tiled" /\ pc \in {"logo", "rotateLogo", "grid", "pattern", "rotate",
                                  "crop", "composite", "done"})
          => imageMetadata = [width |-> image.width, height |-> image.height]
    /\ Tiling => logoMetadata = [width |-> logo.width, height |-> logo.height]
    /\ Cropped => ~Unavailable(rotatedMetadata)
    /\ (thrown \in DimensionCauses(mode) /\ pc # "catch")
          => /\ pc = "failed"
             /\ result.kind = "error"
             /\ result.cause = thrown
    /\ result.kind = "buffer" => thrown = NoError

DimensionFailureStep ==
    (thrown' # thrown /\ thrown' \in DimensionCauses(mode))
        => /\ pc \in DimensionStages(mode)
           /\ pc' = "catch"
           /\ result' = Pending

BoxInsideImage ==
    /\ 0 <= compositeOptions.left
    /\ compositeOptions.left + combinedWatermark.width <= image.width
    /\ 0 <= compositeOptions.top
    /\ compositeOptions.top + combinedWatermark.height <= image.height

\* C12 as claimed: with padding <= image width and padding <= image height
\* the mark's box at the computed offset lies inside the image.
BoxInsideWhenPaddingFits ==
    (Placed /\ padding <= image.width /\ padding <= image.height) => BoxInsideImage

\* C12: with 0 <= padding, mark width + padding <= image width and mark
\* height + padding <= image height, the mark's box at the computed offset
\* lies inside the image, for every position.
BoxInsideWhenMarkAndPaddingFit ==
    ( /\ Placed
      /\ 0 <= padding
      /\ combinedWatermark.width + padding <= image.width
      /\ combinedWatermark.height + padding <= image.height )
        => BoxInsideImage

BoxInsideWitness ==
    /\ pc = "done"
    /\ mode = "fixed"
    /\ position = "southeast"
    /\ padding > 0
    /\ combinedWatermark.width + padding <= image.width
    /\ combinedWatermark.height + padding <= image.height
    /\ compositeOptions.left + combinedWatermark.width + padding = image.width

\* C13: the offset handed to the compositor is the computed one, never
\* clamped, and a negative left or top does not make the compositor reject
\* the overlay: the call goes on with a partially cropped overlay.
NegativeOffsetsAccepted ==
    /\ [](Placed => compositeOptions = Offset(position, image, combinedWatermark, padding))
    /\ [][ ( /\ mode = "fixed"
             /\ pc = "composite"
             /\ (compositeOptions.left < 0 \/ compositeOptions.top < 0) )
           => thrown' # CompositeError ]_vars

(***************************************************************************)
(* Options                                                                 *)
(***************************************************************************)
\* What the function works with for an option: the caller's value, or the
\* documented default d when the caller left it out.
Effective(field, d) == IF field = Omitted THEN d ELSE field[1]

DefaultsApplied ==
    LET width == Effective(options.logoWidth, IF mode = "fixed" THEN 300 ELSE 112)
        pos == Effective(options.position, "southwest")
        pad == Effective(options.padding, 20)
        op == Effective(options.opacity,
                        IF mode = "fixed" THEN [n |-> 1, d |-> 1] ELSE [n |-> 15, d |-> 100])
        sp == Effective(options.spacing, 25)
        \* -30 degrees, as the nearest direction the model has
        a == Effective(options.angle, [cn |-> 209, sn |-> -120, q |-> 241])
        round == MathRound(logoPixels[4] * op.n, op.d)
    IN  /\ LogoLoaded => ScaledLogo.width = width
        /\ Placed => compositeOptions = Offset(pos, image, combinedWatermark, pad)
        /\ (Placed /\ options.position = Omitted /\ options.padding = Omitted)
              => /\ compositeOptions.left = 20
                 /\ compositeOptions.top = image.height - combinedWatermark.height - 20
        /\ (LogoLoaded /\ mode = "fixed") =>
              /\ "logo" \in scaled <=> op.n < op.d
              /\ op.n >= op.d => logo.data = logoPixels
        /\ (LogoLoaded /\ 0 <= round /\ round <= 255 /\ (mode = "tiled" \/ op.n < op.d))
              => ScaledLogo.data[4] = round
        /\ Tiling =>
              /\ logo.width = RotatedSize(logoWithOpacity, Negated(a)).width
              /\ logo.height = RotatedSize(logoWithOpacity, Negated(a)).height
              /\ composites[2].left - composites[1].left = logoMetadata.width + sp
        /\ Cropped => rotatedMetadata = RotatedSize(Square(canvasSize), a)

\* C15: each option the caller leaves out takes its default (fixed mode:
\* position southwest, padding 20, opacity 1.0, logo width 300; tiled mode:
\* logo width 112, opacity 0.15, spacing 25, angle -30), each option given is
\* used as given, and the options never change during the call.
DefaultsAndGivenOptions == []DefaultsApplied /\ [][options' = options]_vars

DefaultsAndGivenOptionsWitness ==
    /\ pc = "done"
    /\ mode = "tiled"
    /\ options = [logoWidth |-> Omitted, position |-> Omitted, padding |-> Omitted,
                  opacity |-> Omitted, spacing |-> Omitted, angle |-> Omitted]
    /\ logoWithOpacity.width = 112
    /\ logoWithOpacity.data[4] = 30
    /\ composites[2].left - composites[1].left = logoMetadata.width + 25

(***************************************************************************)
(* The tiles                                                               *)
(***************************************************************************)
\* The list of tiles is complete when the pattern is about to be composited.
TilesListed == mode = "tiled" /\ pc = "pattern"

\* v is Math.round of the half-integer n2 / 2.
RoundOfHalves(v, n2) == 2 * v - 1 <= n2 /\ n2 < 2 * v + 1

\* n is Math.ceil(a / b), b > 0.
CeilOfQuotient(n, a, b) == (n - 1) * b < a /\ a <= n * b

\* C18: the list of tile placements is, row after row (y outer, x inner),
\* left = round(offsetX + x * tileWidth + rowOffset), top = round(offsetY +
\* y * tileHeight) with tileWidth = tw + spacing, tileHeight = th + spacing,
\* tilesX = ceil(canvasSize / tileWidth) + 1, tilesY likewise, offsetX =
\* (canvasSize - tilesX * tileWidth) / 2, offsetY likewise, rowOffset 0 on
\* even rows and tileWidth / 2 on odd rows; it has tilesX * tilesY entries.
TilePlacements ==
    TilesListed =>
        LET tileWidth == logoMetadata.width + spacing
            tileHeight == logoMetadata.height + spacing
            tilesX == 1 + CHOOSE n \in 1..canvasSize :
                                CeilOfQuotient(n, canvasSize, tileWidth)
            tilesY == 1 + CHOOSE n \in 1..canvasSize :
                                CeilOfQuotient(n, canvasSize, tileHeight)
        IN  /\ Len(composites) = tilesX * tilesY
            /\ \A y \in 0..(tilesY - 1) : \A x \in 0..(tilesX - 1) :
                 LET tile == composites[y * tilesX + x + 1]
                     rowOffset2 == IF y % 2 = 0 THEN 0 ELSE tileWidth
                 IN  /\ RoundOfHalves(tile.left,
                                      (canvasSize - tilesX * tileWidth)
                                      + 2 * x * tileWidth + rowOffset2)
                     /\ RoundOfHalves(tile.top,
                                      (canvasSize - tilesY * tileHeight)
                                      + 2 * y * tileHeight)

TilePlacementsWitness ==
    /\ pc = "done"
    /\ mode = "tiled"
    /\ spacing = 1
    /\ logoMetadata = [width |-> 2, height |-> 1]
    /\ canvasSize = 7
    /\ Len(composites) = 4 * 5
    /\ composites[1] = [top |-> -1, left |-> -2]
    /\ composites[5] = [top |-> 1, left |-> -1]

\* The boxes of tiles i and j of the list, each tw x th, share a pixel.
TilesIntersect(i, j) ==
    /\ composites[i].left < composites[j].left + logoMetadata.width
    /\ composites[j].left < composites[i].left + logoMetadata.width
    /\ composites[i].top < composites[j].top + logoMetadata.height
    /\ composites[j].top < composites[i].top + logoMetadata.height

\* C19: for every tile size and spacing >= 0 no two tiles of the list have
\* intersecting boxes after rounding, odd rows against even rows included.
TilesDoNotOverlap ==
    (TilesListed /\ spacing >= 0) =>
        \A i \in 1..Len(composites) : \A j \in (i + 1)..Len(composites) :
            ~TilesIntersect(i, j)

\* tiles that touch: spacing 0, and a shifted odd row
TilesDoNotOverlapWitness ==
    /\ TilesListed
    /\ spacing = 0
    /\ logoMetadata.width = 1
    /\ Len(composites) > 16
    /\ composites[2].left = composites[1].left + logoMetadata.width
    /\ \E i \in 2..Len(composites) :
         /\ composites[i].top = composites[1].top + logoMetadata.height
         /\ composites[i].left \in {composites[1].left, composites[1].left + 1}

(***************************************************************************)
(* The crop                                                                *)
(***************************************************************************)
\* v is Math.floor(n / 2).
FloorOfHalf(v, n) == 2 * v <= n /\ n < 2 * v + 2

\* C20: the crop window is W x H with origin left = max(0, floor((rotatedW -
\* W) / 2)), top = max(0, floor((rotatedH - H) / 2)), rotatedW x rotatedH the
\* size of the canvas after rotation; the cropped pattern, as large as the
\* target, lands on it at offset (0, 0).
CropWindow ==
    Cropped =>
        /\ rotatedMetadata = RotatedSize(Square(canvasSize), angle)
        /\ croppedPattern.width = image.width
        /\ croppedPattern.height = image.height
        /\ \/ croppedPattern.left = 0 /\ rotatedMetadata.width - image.width < 2
           \/ croppedPattern.left > 0
              /\ FloorOfHalf(croppedPattern.left, rotatedMetadata.width - image.width)
        /\ \/ croppedPattern.top = 0 /\ rotatedMetadata.height - image.height < 2
           \/ croppedPattern.top > 0
              /\ FloorOfHalf(croppedPattern.top, rotatedMetadata.height - image.height)
        /\ GravityCentre(image, croppedPattern) = [left |-> 0, top |-> 0]

\* an odd difference: 4 - 1 = 3, origin 1
CropWindowWitness ==
    /\ pc = "done"
    /\ mode = "tiled"
    /\ image = [width |-> 1, height |-> 2]
    /\ rotatedMetadata = [width |-> 4, height |-> 4]
    /\ croppedPattern = [left |-> 1, top |-> 1, width |-> 1, height |-> 2]

(***************************************************************************)
(* Calls in flight together                                                *)
(***************************************************************************)
\* How far a call has come: every stage is entered from an earlier one.
Rank(m, at) ==
    IF m = "fixed"
    THEN CASE at = "logo" -> 0 [] at = "logoMetadata" -> 1 [] at = "caption" -> 2
           [] at = "compose" -> 3 [] at = "dimensions" -> 4 [] at = "place" -> 5
           [] at = "composite" -> 6 [] at \in {"done", "catch"} -> 7 [] OTHER -> 8
    ELSE CASE at = "imageMetadata" -> 0 [] at = "logo" -> 1 [] at = "rotateLogo" -> 2
           [] at = "grid" -> 3 [] at = "pattern" -> 4 [] at = "rotate" -> 5
           [] at = "crop" -> 6 [] at = "composite" -> 7
           [] at \in {"done", "catch"} -> 8 [] OTHER -> 9

\* What the call with activation c has computed comes from its own
\* parameters, and its result is the one of its own image or failure.
OwnOutcome(c) ==
    /\ c.imageMetadata \in {NoMetadata, [width |-> c.image.width, height |-> c.image.height]}
    /\ (c.mode = "fixed" /\ c.pc \in {"composite", "done"}) =>
          c.compositeOptions =
              Offset(Effective(c.options.position, "southwest"), c.image,
                     c.combinedWatermark, Effective(c.options.padding, 20))
    /\ (c.mode = "tiled" /\ c.pc \in {"composite", "done"}) =>
          /\ c.croppedPattern.width = c.image.width
          /\ c.croppedPattern.height = c.image.height
          /\ c.croppedPattern = ExtractRegion(c.rotatedMetadata, c.image)
    /\ (c.pc \in {"grid", "pattern", "rotate", "crop", "composite", "done"}
        /\ c.mode = "tiled")
          => c.logoMetadata = [width |-> c.logo.width, height |-> c.logo.height]
    /\ c.pc = "done" =>
          c.result = [kind |-> "buffer", width |-> c.image.width,
                      height |-> c.image.height, prefix |-> "", cause |-> ""]
    /\ c.pc = "failed" =>
          /\ c.result.kind = "error"
          /\ c.result.cause = c.thrown
          /\ c.result.prefix = (IF c.mode = "fixed"
                                THEN "Failed to add watermark"
                                ELSE "Failed to add step and repeat watermark")
    /\ c.pc \notin {"done", "failed"} => c.result = Pending

\* A step of two calls in flight: either the running call is parked and the
\* other resumed, both exactly as they were, or the running call takes one
\* step of the function, forward, that a call running alone could take, and
\* the parked call is not touched.
IsolatedStep ==
    \/ /\ waiting # Alone
       /\ \E parked \in {1, 2} :
            /\ parked = waiting.id
            /\ waiting' = Here(3 - parked)
            /\ Here(parked)' = waiting
    \/ /\ waiting' = waiting
       /\ Next
       /\ Rank(mode, pc') = Rank(mode, pc) + 1
          \/ (pc' = "catch" /\ Rank(mode, pc') > Rank(mode, pc))
       /\ UNCHANGED inputs

\* C14: with two calls in flight, in any interleaving, a call's stages are
\* those of the call running alone on its own image, assets and options, no
\* stage reads or writes anything of the other call, its result (buffer or
\* error) is the one of its own inputs, and no stage is entered twice.
CallsAreIsolated ==
    /\ [](OwnOutcome(Here(Running)) /\ (waiting # Alone => OwnOutcome(waiting)))
    /\ [][IsolatedStep]_vars

\* both calls finished, one with a buffer and one with an error, after the
\* second overtook the first
CallsAreIsolatedWitness ==
    /\ waiting # Alone
    /\ Running = 1
    /\ pc = "done"
    /\ mode = "fixed"
    /\ waiting.pc = "failed"
    /\ waiting.mode = "tiled"
    /\ waiting.thrown = "Could not determine rotated pattern dimensions"
    /\ result.width = image.width
    /\ image # waiting.image

(***************************************************************************)
(* Rate limit and request checks                                           *)
(***************************************************************************)
RateLimitAnswered == rateLimitResult # NoResult

\* C16: without the Upstash store configured checkRateLimit answers success
\* = true for every identifier on every call, however many came before, and
\* asks no limiter; with it configured the success, limit, remaining and
\* reset it returns are those of the limiter's decision for the identifier.
RateLimitResultIsDecision ==
    /\ (RateLimitAnswered /\ ~env.upstash) =>
          /\ rateLimitResult.success = TRUE
          /\ decision = NoDecision
          /\ \A id \in Identifiers : store[id] \in {0, 99, 100}
    /\ (RateLimitAnswered /\ env.upstash) =>
          /\ DOMAIN rateLimitResult = {"success", "limit", "remaining", "reset"}
          /\ rateLimitResult.success = decision.success
          /\ rateLimitResult.limit = decision.limit
          /\ rateLimitResult.remaining = decision.remaining
          /\ rateLimitResult.reset = decision.reset
          /\ decision.limit = 100
          /\ decision.remaining = 100 - store[GetClientIp(request)]

\* the window fills with the first request and the second is refused
RateLimitResultIsDecisionWitness ==
    /\ env.upstash
    /\ now = 2
    /\ RateLimitAnswered
    /\ rateLimitResult = [success |-> FALSE, limit |-> 100, remaining |-> 0,
                          reset |-> 3600000]
    /\ store[GetClientIp(request)] = 100

\* The response POST owes the request by its first failing check, 200 when
\* every check passes.
PasswordOk == env.demoPassword = Omitted \/ request.password = env.demoPassword
FieldsGiven ==
    /\ request.artwork # Omitted
    /\ request.labelSize \notin {Omitted, Given("")}
    /\ request.productId \notin {Omitted, Given("")}
Owed ==
    IF ~PasswordOk THEN <<401, "Invalid password">>
    ELSE IF ~rateLimitResult.success THEN <<429, "Rate limit exceeded. Try again after">>
    ELSE IF ~FieldsGiven THEN <<400, "Missing required fields">>
    ELSE IF request.productId # Given("wine-bottle") THEN <<400, "Invalid product type">>
    ELSE IF request.artwork[1].size > 10485760 THEN <<400, "File size exceeds 10MB limit">>
    ELSE IF request.artwork[1].type \notin {"image/png", "image/jpeg", "image/jpg"}
    THEN <<400, "Only PNG and JPEG files are accepted">>
    ELSE <<200, "">>

Handling == rpc \notin {"idle", "off"}

\* C17: POST saves the upload, calls the generation service, applies a
\* watermark and saves an image only after every check passed; the checks go
\* password (when DEMO_PASSWORD is set), rate limit, required fields, product
\* id, size, type, and the first that fails answers with its status (401,
\* 429, 400) and text, nothing saved or generated.
ChecksBeforeEffects ==
    Handling =>
        /\ effects # << >> => (RateLimitAnswered /\ Owed = <<200, "">>)
        /\ ~PasswordOk => ~RateLimitAnswered
        /\ (rpc = "responded" /\ response.status # 500) =>
              /\ <<response.status, response.error>> = Owed
              /\ response.success <=> response.status = 200
        /\ (rpc = "responded" /\ response.status \in {400, 401, 429}) => effects = << >>
        /\ (rpc = "responded" /\ response.status = 200) =>
              /\ Len(effects) \in {3, 4}
              /\ effects[1] = "saveUploadedFile"
              /\ effects[2] = "generateProductMockup"
              /\ effects[Len(effects)] = "saveBufferImage"
              /\ Len(effects) = 4 =>
                    effects[3] \in {"addLogoWatermark", "addStepAndRepeatWatermark"}

\* a file that is too large and of the wrong type is refused for its size
ChecksBeforeEffectsWitness ==
    /\ rpc = "responded"
    /\ env.demoPassword = Given("demo")
    /\ request.password = Given("demo")
    /\ request.artwork = Given([size |-> 10485761, type |-> "image/gif"])
    /\ response.status = 400
    /\ response.error = "File size exceeds 10MB limit"
    /\ effects = << >>

(***************************************************************************)
(* Counter-rotation                                                        *)
(***************************************************************************)
\* a turn by 0 degrees: cosine 1, sine 0
Upright(t) == t.sn = 0 /\ t.cn = t.q /\ t.q > 0

\* the turn t is the opposite of the angle a
OppositeOf(t, a) == t.cn * a.q = a.cn * t.q /\ t.sn * a.q = -a.sn * t.q

\* C21: in step-and-repeat mode the logo is turned by -angle before it is
\* tiled and the tiled canvas by angle afterwards, so that for every angle
\* the logos of the output are turned by 0 degrees in all; both rotations
\* fill what they expose with fully transparent pixels.
LogosEndUpright ==
    mode = "tiled" =>
        /\ pc \in {"imageMetadata", "logo", "rotateLogo"} => orientation = AsLoaded
        /\ pc \in {"grid", "pattern", "rotate"} =>
              /\ OppositeOf(orientation.turn, angle)
              /\ Len(orientation.background) = 1
        /\ pc \in {"crop", "composite", "done"} =>
              /\ Upright(orientation.turn)
              /\ Len(orientation.background) = 2
        /\ \A i \in DOMAIN orientation.background :
              orientation.background[i] = [r |-> 0, g |-> 0, b |-> 0, alpha |-> 0]

\* a pattern turned by 53.13 degrees, done
LogosEndUprightWitness ==
    /\ mode = "tiled"
    /\ pc = "done"
    /\ options.angle = Given([cn |-> 3, sn |-> 4, q |-> 5])
    /\ orientation.turn = [cn |-> 25, sn |-> 0, q |-> 25]
    /\ Len(orientation.background) = 2

(***************************************************************************)
(* The gate on alpha scaling                                               *)
(***************************************************************************)
BelowOne(op) == op.n < op.d

\* C22: addLogoWatermark runs the alpha loop on the logo and on the caption
\* if and only if opacity < 1.0, and for opacity >= 1.0 uses both with their
\* alpha untouched; addStepAndRepeatWatermark runs it on the logo for every
\* opacity, with no gate.
AlphaGates ==
    /\ (mode = "fixed" /\ LogoLoaded) =>
          /\ "logo" \in scaled <=> BelowOne(opacity)
          /\ ~BelowOne(opacity) => logo.data = logoPixels
    /\ (mode = "fixed" /\ CaptionLoaded) =>
          /\ "caption" \in scaled <=> BelowOne(opacity)
          /\ ~BelowOne(opacity) => textBuffer.data = captionPixels
    /\ (mode = "tiled" /\ LogoLoaded) =>
          /\ "logo" \in scaled
          /\ logoWithOpacity.data[4] =
                MathRound(logoPixels[4] * opacity.n, opacity.d) % 256

\* opacity 1.5 leaves the fixed mark's alpha of 200 alone
AlphaGatesWitness ==
    /\ mode = "fixed"
    /\ pc = "done"
    /\ options.opacity = Given(Rat(3, 2))
    /\ scaled = {}
    /\ logoPixels[4] = 200
    /\ logo.data[4] = 200
    /\ textBuffer.data[4] = 200

(***************************************************************************)
(* The watermark a request selects                                         *)
(***************************************************************************)
Called(name) == \E i \in DOMAIN effects : effects[i] = name

\* the watermark step of POST is over
PastWatermark ==
    \/ rpc = "saveImage"
    \/ rpc = "responded" /\ Len(effects) >= 3
    \/ rpc = "responded" /\ Called("generateProductMockup")
       /\ response.error # "Gemini API error"

\* C23: POST chooses the watermark from the request alone: step-and-repeat
\* iff watermarkEnabled is "true" and watermarkId is "olg-step-repeat", the
\* fixed-position watermark iff watermarkEnabled is "true" and watermarkId is
\* "ol-logo" or "olg-watermark"; in every other case (disabled, missing or
\* unknown id) the image saved is the generated image as it came, no
\* watermark function having been called on it.
WatermarkChosenFromRequest ==
    PastWatermark =>
        /\ Called("addStepAndRepeatWatermark") <=>
              /\ request.watermarkEnabled = Given("true")
              /\ request.watermarkId = Given("olg-step-repeat")
        /\ Called("addLogoWatermark") <=>
              /\ request.watermarkEnabled = Given("true")
              /\ request.watermarkId \in {Given("ol-logo"), Given("olg-watermark")}
        /\ (~Called("addStepAndRepeatWatermark") /\ ~Called("addLogoWatermark")) =>
              /\ rpc = "saveImage" \/ response.status = 200
                 \/ response.error = "saveBufferImage failed"
              /\ rpc = "responded" /\ response.status = 200 =>
                    effects = <<"saveUploadedFile", "generateProductMockup",
                                "saveBufferImage">>

(***************************************************************************)
(* A failed watermark                                                      *)
(***************************************************************************)
WatermarkFunctions == {"addLogoWatermark", "addStepAndRepeatWatermark"}

\* POST ended with a watermark call as the last thing it did
EndedAtWatermark ==
    /\ rpc = "responded"
    /\ effects # << >>
    /\ effects[Len(effects)] \in WatermarkFunctions

\* C24: when the selected watermark call fails POST saves no generated
\* image, watermarked or not, and answers 500 with success = false and the
\* error's message; an unwatermarked image never stands in for it.
FailedWatermarkSavesNothing ==
    /\ EndedAtWatermark =>
          /\ response.status = 500
          /\ response.success = FALSE
          /\ response.error \in {"Failed to add watermark",
                                 "Failed to add step and repeat watermark",
                                 "saveBufferImage failed"}
          /\ ~Called("saveBufferImage")
    /\ (Handling /\ Called("saveBufferImage")) =>
          /\ effects[Len(effects)] = "saveBufferImage"
          /\ response.status = 200
          /\ \A i \in 1..Len(effects) :
                effects[i] \in WatermarkFunctions => i = Len(effects) - 1

FailedWatermarkSavesNothingWitness ==
    /\ rpc = "responded"
    /\ request.watermarkId = Given("olg-step-repeat")
    /\ effects = <<"saveUploadedFile", "generateProductMockup",
                   "addStepAndRepeatWatermark">>
    /\ response.status = 500
    /\ response.error = "Failed to add step and repeat watermark"

(***************************************************************************)
(* File names                                                              *)
(***************************************************************************)
\* C25: for every artworkHash, labelSize and timestamp POST uses, parsing
\* the saved name "{artworkHash}-{labelSize}-{timestamp}.png" gives the same
\* artworkHash, labelSize and timestamp back; and the gallery lists the
\* images by timestamp, newest first.
FilenameRoundTrip ==
    /\ \A artworkHash \in Hashes, labelSize \in LabelSizes, timestamp \in Timestamps :
         Filename(artworkHash, labelSize, timestamp) \in files =>
            LET parsed == ParseFilename(Filename(artworkHash, labelSize, timestamp),
                                        << >>)
            IN  /\ parsed.artworkHash = artworkHash
                /\ parsed.labelSize = labelSize
                /\ parsed.timestamp = timestamp
    /\ listing # NotListed =>
         \A i, j \in 1..Len(listing.images) :
            i < j => listing.images[i].timestamp >= listing.images[j].timestamp

(***************************************************************************)
(* The crop origin and its clamp                                           *)
(***************************************************************************)
Rotated == mode = "tiled" /\ pc \in {"crop", "composite", "done"}

\* C26: in step-and-repeat mode, rotating the canvasSize square never giving
\* a bounding box smaller than canvasSize in either dimension, the crop
\* origin floor((rotatedW - W) / 2), floor((rotatedH - H) / 2) is >= 0 before
\* Math.max(0, .) is applied, which so never changes it, and the window
\* fits: extractLeft + W <= rotatedW and extractTop + H <= rotatedH.
ClampNeverChangesOrigin ==
    (/\ Rotated
     /\ rotatedMetadata.width >= canvasSize
     /\ rotatedMetadata.height >= canvasSize) =>
        LET extractLeft == MathFloor(rotatedMetadata.width - imageMetadata.width, 2)
            extractTop == MathFloor(rotatedMetadata.height - imageMetadata.height, 2)
        IN  /\ imageMetadata.width >= 1 /\ imageMetadata.height >= 1
            /\ extractLeft >= 0
            /\ extractTop >= 0
            /\ MathMax(0, extractLeft) = extractLeft
            /\ MathMax(0, extractTop) = extractTop
            /\ extractLeft + imageMetadata.width <= rotatedMetadata.width
            /\ extractTop + imageMetadata.height <= rotatedMetadata.height
            /\ pc \in {"composite", "done"} =>
                  /\ croppedPattern.left = extractLeft
                  /\ croppedPattern.top = extractTop

\* the 7 x 7 canvas of a 3 x 3 image, not turned: the window starts at (2, 2)
ClampNeverChangesOriginWitness ==
    /\ Rotated
    /\ pc = "done"
    /\ imageMetadata = Size(3, 3)
    /\ rotatedMetadata = Size(7, 7)
    /\ croppedPattern = [left |-> 2, top |-> 2, width |-> 3, height |-> 3]

(***************************************************************************)
(* The reach of the tile grid                                              *)
(***************************************************************************)
GridLaid == mode = "tiled" /\ pc \in {"pattern", "rotate", "crop", "composite", "done"}

\* C27: for every image, tile size tw, th >= 1 and spacing >= 0 the grid
\* reaches past both edges of the canvas in both axes: offsetX <=
\* -tileWidth / 2 and offsetY <= -tileHeight / 2, the first tile of every
\* row, even or odd, is at left <= 0 and the first row at top <= 0, and
\* offsetX + tilesX * tileWidth >= canvasSize, offsetY + tilesY * tileHeight
\* >= canvasSize.
GridReachesPastEdges ==
    (GridLaid /\ spacing >= 0 /\ logoMetadata.width >= 1 /\ logoMetadata.height >= 1) =>
        LET g == Grid(logoMetadata, imageMetadata, spacing)
        IN  /\ g.canvasSize = canvasSize
            /\ Len(composites) = g.tilesX * g.tilesY
            /\ g.offsetX2 <= -g.tileWidth
            /\ g.offsetY2 <= -g.tileHeight
            /\ \A y \in 0..(g.tilesY - 1) : composites[y * g.tilesX + 1].left <= 0
            /\ \A x \in 0..(g.tilesX - 1) : composites[x + 1].top <= 0
            /\ g.offsetX2 + 2 * g.tilesX * g.tileWidth >= 2 * canvasSize
            /\ g.offsetY2 + 2 * g.tilesY * g.tileHeight >= 2 * canvasSize

\* four columns of tiles 3 wide on a canvas of 7: offsetX = -2.5; the odd
\* rows start at round(-1) = -1
GridReachesPastEdgesWitness ==
    /\ GridLaid
    /\ spacing = 1
    /\ logoMetadata = [width |-> 2, height |-> 1]
    /\ canvasSize = 7
    /\ Grid(logoMetadata, imageMetadata, spacing).offsetX2 = -5
    /\ composites[1].left = -2
    /\ composites[5].left = -1

(***************************************************************************)
(* The mark's distances to the edges                                       *)
(***************************************************************************)
\* C28: in fixed-position mode, with padding >= 0, markW + 2 * padding <=
\* imgW and markH + 2 * padding <= imgH, the mark's box at the computed
\* offset lies inside the image for each of the five positions; at the four
\* corners its distance to the two edges it is anchored to is exactly
\* padding; at the centre (imgW - markW) - 2 * left and (imgH - markH) -
\* 2 * top are each 0 or 1.
AnchoredAtPadding ==
    ( /\ Placed
      /\ position \in Positions
      /\ padding >= 0
      /\ combinedWatermark.width + 2 * padding <= image.width
      /\ combinedWatermark.height + 2 * padding <= image.height ) =>
        LET toLeft == compositeOptions.left
            toTop == compositeOptions.top
            toRight == image.width - (compositeOptions.left + combinedWatermark.width)
            toBottom == image.height - (compositeOptions.top + combinedWatermark.height)
        IN  /\ toLeft >= 0 /\ toTop >= 0 /\ toRight >= 0 /\ toBottom >= 0
            /\ position = "southeast" => toRight = padding /\ toBottom = padding
            /\ position = "southwest" => toLeft = padding /\ toBottom = padding
            /\ position = "northeast" => toRight = padding /\ toTop = padding
            /\ position = "northwest" => toLeft = padding /\ toTop = padding
            /\ position = "center" =>
                  /\ toRight - toLeft \in {0, 1}
                  /\ toBottom - toTop \in {0, 1}

\* a centred mark with an odd pixel left over on its right
AnchoredAtPaddingWitness ==
    /\ mode = "fixed"
    /\ pc = "done"
    /\ position = "center"
    /\ padding >= 0
    /\ combinedWatermark.width + 2 * padding <= image.width
    /\ combinedWatermark.height + 2 * padding <= image.height
    /\ image.width - combinedWatermark.width - 2 * compositeOptions.left = 1

(***************************************************************************)
(* What a request takes from the rate limit                                *)
(***************************************************************************)
\* the count of the request's client goes up by n, no other count changes
Consumes(n) ==
    IF n = 0
    THEN store' = store
    ELSE store' = [store EXCEPT ![GetClientIp(request)] = @ + n]

\* a wrong or missing password is answered 401 (500 if the form cannot be
\* read) with checkRateLimit not called and nothing taken from any window
RejectedBeforeLimit ==
    (rpc = "formData" /\ ~PasswordOk) =>
        /\ rpc' = "responded" =>
              \/ response' = Json(401, "Invalid password", NoHeaders)
              \/ response'.status = 500
        /\ rpc' # "checkRateLimit"
        /\ rateLimitResult' = NoResult
        /\ Consumes(0)

\* a request whose password passed goes on to checkRateLimit, once
LimitCalledOnce ==
    /\ (rpc = "formData" /\ PasswordOk /\ rpc' # "responded") => rpc' = "checkRateLimit"
    /\ (rpc # "checkRateLimit" /\ rpc' # "idle") =>
          /\ Consumes(0)
          /\ rateLimitResult' = rateLimitResult
    /\ rpc' = "checkRateLimit" => rpc = "formData"

\* C29 as claimed: with DEMO_PASSWORD set a wrong or missing password is
\* answered 401 before checkRateLimit is called and takes nothing from the
\* rate limit; every request that passes the password check takes exactly
\* one unit for its client IP, also when it is then refused with 400.
EveryPassingRequestConsumesOne ==
    [][ /\ RejectedBeforeLimit
        /\ LimitCalledOnce
        /\ (rpc = "checkRateLimit" /\ rpc' = "validate") => Consumes(1) ]_vars

\* C29: a wrong or missing password is answered 401 before checkRateLimit
\* is called and takes nothing; a request that passes the password check has
\* checkRateLimit called exactly once for its client IP, before its fields
\* are looked at, and that call takes exactly one unit when the store is
\* configured and the window is not full (also when the request is then
\* refused with 400), and none when the store is not configured or the
\* window is full.
PassingRequestConsumesOneIfAny ==
    [][ /\ RejectedBeforeLimit
        /\ LimitCalledOnce
        /\ (rpc = "checkRateLimit" /\ rpc' = "validate") =>
              IF env.upstash /\ store[GetClientIp(request)] < 100
              THEN Consumes(1) /\ rateLimitResult'.success
              ELSE Consumes(0) /\ (rateLimitResult'.success <=> ~env.upstash)
        /\ (rpc = "validate" /\ rpc' = "responded" /\ response'.status = 400) =>
              /\ RateLimitAnswered
              /\ rateLimitResult.success ]_vars

\* the first request of a client, refused for its fields, has taken a unit
PassingRequestConsumesOneWitness ==
    /\ rpc = "responded"
    /\ now = 1
    /\ env.upstash
    /\ response.status = 400
    /\ response.error = "Missing required fields"
    /\ store[GetClientIp(request)] = 1
    /\ rateLimitResult.remaining = 99

(***************************************************************************)
(* The end of the tile loop                                                *)
(***************************************************************************)
GridComputed ==
    mode = "tiled" /\ pc \in {"tileLoop", "pattern", "rotate", "crop", "composite", "done"}

\* ceil(canvasSize / pitch) + 1 is a finite number: canvasSize being
\* positive, it is Infinity exactly when the pitch is 0
FiniteCount(pitch) == pitch # 0

\* C30: the tile loop ends for every image, tile size and spacing, spacing
\* that makes tileWidth or tileHeight zero or negative included: tilesX and
\* tilesY are finite and the loop is over after exactly max(tilesX, 0) *
\* max(tilesY, 0) placements.
TileLoopTerminates ==
    GridComputed =>
        LET g == Grid(logoMetadata, imageMetadata, spacing)
        IN  /\ pc # "tileLoop"
            /\ FiniteCount(g.tileWidth)
            /\ FiniteCount(g.tileHeight)
            /\ Len(composites) = MathMax(g.tilesX, 0) * MathMax(g.tilesY, 0)

====
